---- MODULE Spec2Model ----
(***************************************************************************)
(* Axis-grid construction (process_grid.GridNetwork), spatial locator      *)
(* (grid_locator.AxisGrid) and element extractors (dxf_extractor.           *)
(* DXFExtractor, dwg_extractor.DWGExtractor) of GetDwgInfo.                *)
(*                                                                         *)
(* A float is an exact fraction <<numerator, denominator>> in lowest terms  *)
(* with a positive denominator, so means and midpoints are exact; float    *)
(* rounding error is not modelled.  Python's round() is round-half-to-even *)
(* on the exact quotient.  A string made by the format "%.4f" is the       *)
(* integer number of ten-thousandths it spells.  An absent value (None) is *)
(* the empty sequence <<>>, a present one the one-element sequence <<v>>.  *)
(* A Python string whose characters the code looks at (a label, a layer, a *)
(* text content) is the sequence of its characters.                        *)
(* A call that raises leaves result = [exc |-> <exception class>].         *)
(* Where several calls are made on one object, history records the earlier *)
(* ones; it is an auxiliary variable and no call reads it.                 *)
(* AutoCAD, which DWGExtractor drives over COM, is the record acad: the    *)
(* documents it has open, the active one (0 when there is none), and, as  *)
(* auxiliary fields, the active document before the latest call, the      *)
(* document Documents.Open returned to it and the Close and activation    *)
(* requests it made.                                                       *)
(***************************************************************************)
EXTENDS Integers, Sequences, FiniteSets, TLC

VARIABLES
    tolerance,        \* GridNetwork.tolerance
    min_axis_length,  \* GridNetwork.min_axis_length
    search_radius,    \* GridNetwork.search_radius
    raw_lines,        \* GridNetwork.raw_lines
    raw_texts,        \* GridNetwork.raw_texts
    axes,             \* GridNetwork.axes
    x_axes,           \* AxisGrid.x_axes
    y_axes,           \* AxisGrid.y_axes
    call,             \* the call in progress or last made: [op |-> ..., <arguments>]
    result,           \* what that call returned, or the exception it raised
    history,          \* the calls made before it, oldest first, each with its result
    extractor,        \* which extractor was constructed: "dxf", "dwg" or "none"
    elements,         \* DXFExtractor.elements / DWGExtractor.elements
    acad              \* the AutoCAD application the DWG extractor connects to

vars == <<tolerance, min_axis_length, search_radius, raw_lines, raw_texts, axes,
          x_axes, y_axes, call, result, history, extractor, elements, acad>>

netVars == <<tolerance, min_axis_length, search_radius, raw_lines, raw_texts, axes>>
gridVars == <<x_axes, y_axes>>
extVars == <<extractor, elements, acad>>

----------------------------------------------------------------------------
(* Bounds of the model *)

MaxAxes == 2        \* axes per direction in a grid snapshot
MaxLines == 3       \* line records handed to one space-detection pass
MaxMinLines == 2    \* largest min_lines tried
MaxRawLines == 2    \* line records handed to one clustering pass
MaxCalls == 3       \* calls made in a row on one AxisGrid
MaxEntities == 2    \* entities in the model space of a drawing

----------------------------------------------------------------------------
(* No extractor in use *)

\* self.elements as __init__ and the reset in extract_from_file make it
NoElements ==
    [texts |-> <<>>, lines |-> <<>>, rects |-> <<>>, circles |-> <<>>, polylines |-> <<>>]

NoAcad == [documents |-> {}, active |-> 0, before |-> 0, opened |-> 0, log |-> <<>>]

ExtIdle ==
    /\ extractor = "none"
    /\ elements = NoElements
    /\ acad = NoAcad

----------------------------------------------------------------------------
(* Generic helpers *)

None == <<>>
Some(v) == <<v>>

Abs(n) == IF n < 0 THEN -n ELSE n

SeqsUpTo(S, n) == UNION {[1..k -> S] : k \in 0..n}

MinOf(S) == CHOOSE m \in S : \A n \in S : m <= n
MaxOf(S) == CHOOSE m \in S : \A n \in S : m >= n

RECURSIVE Gcd(_, _)
Gcd(a, b) == IF b = 0 THEN a ELSE Gcd(b, a % b)

\* the float n / d, d # 0
Q(n, d) ==
    LET g == Gcd(Abs(n), Abs(d))
        sg == IF d < 0 THEN -1 ELSE 1
    IN <<(sg * n) \div g, (sg * d) \div g>>

F(n) == <<n, 1>>
QLt(a, b) == a[1] * b[2] < b[1] * a[2]
QLe(a, b) == a[1] * b[2] <= b[1] * a[2]
QAdd(a, b) == Q(a[1] * b[2] + b[1] * a[2], a[2] * b[2])
QSub(a, b) == Q(a[1] * b[2] - b[1] * a[2], a[2] * b[2])
QMul(a, b) == Q(a[1] * b[1], a[2] * b[2])
QDiv(a, b) == Q(a[1] * b[2], a[2] * b[1])
QAbs(a) == <<Abs(a[1]), a[2]>>

RECURSIVE QSum(_)
QSum(s) == IF s = <<>> THEN F(0) ELSE QAdd(Head(s), QSum(Tail(s)))

QMinOf(S) == CHOOSE m \in S : \A n \in S : QLe(m, n)
QMaxOf(S) == CHOOSE m \in S : \A n \in S : QLe(n, m)

\* Python round(n / d): nearest integer, ties to the even one.  d # 0.
RoundHalfEven(n, d) ==
    LET nn == IF d < 0 THEN -n ELSE n
        dd == Abs(d)
        q == nn \div dd
        r == nn % dd
    IN IF 2 * r < dd THEN q
       ELSE IF 2 * r > dd THEN q + 1
       ELSE IF q % 2 = 0 THEN q ELSE q + 1

----------------------------------------------------------------------------
(* AxisGrid: construction and the two queries *)

\* sorted(list, key=coordinate): stable insertion of a into the sorted list s
RECURSIVE InsertByCoordinate(_, _)
InsertByCoordinate(s, a) ==
    IF s = <<>> THEN <<a>>
    ELSE IF QLt(a.coordinate, Head(s).coordinate) THEN <<a>> \o s
    ELSE <<Head(s)>> \o InsertByCoordinate(Tail(s), a)

\* the list kept in the order given
Unsorted(s) == s

RECURSIVE SortedByCoordinate(_)
SortedByCoordinate(s) ==
    IF s = <<>> THEN <<>>
    ELSE InsertByCoordinate(SortedByCoordinate(SubSeq(s, 1, Len(s) - 1)), s[Len(s)])

\* AxisGrid._span with the strict comparison replaced by <=
RECURSIVE SpanFromLe(_, _, _)
SpanFromLe(as, coord, previous) ==
    IF as = <<>> THEN [prev |-> previous, next |-> None]
    ELSE IF QLe(coord, Head(as).coordinate) THEN [prev |-> previous, next |-> Some(Head(as))]
    ELSE SpanFromLe(Tail(as), coord, Some(Head(as)))

\* the loop of AxisGrid._span: previous is the axis passed last
RECURSIVE SpanFrom(_, _, _)
SpanFrom(as, coord, previous) ==
    IF as = <<>> THEN [prev |-> previous, next |-> None]
    ELSE IF QLt(coord, Head(as).coordinate) THEN [prev |-> previous, next |-> Some(Head(as))]
    ELSE SpanFrom(Tail(as), coord, Some(Head(as)))

SpanLe(as, coord) == SpanFromLe(as, coord, None)

_span(as, coord) == SpanFrom(as, coord, None)

\* AxisGrid._nearest_axis: min() keeps the first of several equally near axes
RECURSIVE NearestFrom(_, _, _)
NearestFrom(as, coord, best) ==
    IF as = <<>> THEN best
    ELSE IF QLt(QAbs(QSub(Head(as).coordinate, coord)), QAbs(QSub(best.coordinate, coord)))
         THEN NearestFrom(Tail(as), coord, Head(as))
         ELSE NearestFrom(Tail(as), coord, best)

\* min() replaced by a scan that keeps the last of several equally near axes
RECURSIVE NearestFromLast(_, _, _)
NearestFromLast(as, coord, best) ==
    IF as = <<>> THEN best
    ELSE IF QLe(QAbs(QSub(Head(as).coordinate, coord)), QAbs(QSub(best.coordinate, coord)))
         THEN NearestFromLast(Tail(as), coord, Head(as))
         ELSE NearestFromLast(Tail(as), coord, best)

NearestAxisLast(as, coord) ==
    IF as = <<>> THEN None ELSE Some(NearestFromLast(Tail(as), coord, Head(as)))

\* min() keyed by the signed difference coordinate - coord
RECURSIVE NearestFromSigned(_, _, _)
NearestFromSigned(as, coord, best) ==
    IF as = <<>> THEN best
    ELSE IF QLt(QSub(Head(as).coordinate, coord), QSub(best.coordinate, coord))
         THEN NearestFromSigned(Tail(as), coord, Head(as))
         ELSE NearestFromSigned(Tail(as), coord, best)

NearestAxisSigned(as, coord) ==
    IF as = <<>> THEN None ELSE Some(NearestFromSigned(Tail(as), coord, Head(as)))

_nearest_axis(as, coord) ==
    IF as = <<>> THEN None ELSE Some(NearestFrom(Tail(as), coord, Head(as)))

\* axis_label, the local function of locate_point
axis_label(axis) == IF axis = None THEN None ELSE Some(axis[1].label)

\* locate_point with the x fields computed from y_axes and y
LocatePointSwapped(xs, ys, x, y) ==
    LET vx == _span(ys, y)
        vy == _span(ys, y)
        nearest_x == _nearest_axis(ys, y)
        nearest_y == _nearest_axis(ys, y)
    IN [nearest_x_axis |-> axis_label(nearest_x),
        nearest_y_axis |-> axis_label(nearest_y),
        x_span_start |-> axis_label(vx.prev),
        x_span_end |-> axis_label(vx.next),
        y_span_start |-> axis_label(vy.prev),
        y_span_end |-> axis_label(vy.next)]

locate_point(xs, ys, x, y) ==
    LET vx == _span(xs, x)
        vy == _span(ys, y)
        nearest_x == _nearest_axis(xs, x)
        nearest_y == _nearest_axis(ys, y)
    IN [nearest_x_axis |-> axis_label(nearest_x),
        nearest_y_axis |-> axis_label(nearest_y),
        x_span_start |-> axis_label(vx.prev),
        x_span_end |-> axis_label(vx.next),
        y_span_start |-> axis_label(vy.prev),
        y_span_end |-> axis_label(vy.next)]

\* A field of an input record, as float() and the subscript see it:
\*   "num"     a float or a float-coercible string, of value v
\*   "str"     a string float() rejects (ValueError)
\*   "none"    None (TypeError)
\*   "absent"  the key is missing (KeyError)
\*   "nan"     a float or string float() accepts as not-a-number; round()
\*             raises ValueError on it
Num(v) == [kind |-> "num", v |-> v]
BadKinds == {"str", "none", "absent"}
Bad(k) == [kind |-> k, v |-> F(0)]

\* the exception float(record[key]) raises on a field, "" when it raises none
FloatError(f) ==
    CASE f.kind \in {"num", "nan"} -> ""
      [] f.kind = "str" -> "ValueError"
      [] f.kind = "none" -> "TypeError"
      [] f.kind = "absent" -> "KeyError"

\* locate_entity with "except ValueError" alone: a TypeError escapes
LocateEntityValueErrorOnly(xs, ys, entity) ==
    IF entity.x.kind = "absent" \/ entity.y.kind = "absent" THEN [exc |-> "ValueError"]
    ELSE IF FloatError(entity.x) = "TypeError" THEN [exc |-> "TypeError"]
    ELSE IF FloatError(entity.x) # "" THEN [exc |-> "ValueError"]
    ELSE IF FloatError(entity.y) = "TypeError" THEN [exc |-> "TypeError"]
    ELSE IF FloatError(entity.y) # "" THEN [exc |-> "ValueError"]
    ELSE locate_point(xs, ys, entity.x.v, entity.y.v)

locate_entity(xs, ys, entity) ==
    IF /\ entity.x.kind # "absent"
       /\ entity.y.kind # "absent"
       /\ FloatError(entity.x) = ""
       /\ FloatError(entity.y) = ""
    THEN locate_point(xs, ys, entity.x.v, entity.y.v)
    ELSE [exc |-> "ValueError"]

----------------------------------------------------------------------------
(* AxisGrid._locate_line_spaces: closed spaces and open lines *)

\* f"{value:.4f}"
Fmt4(q) == RoundHalfEven(q[1] * 10000, q[2])

\* {**a, **b}
Merge(a, b) == [k \in DOMAIN a \cup DOMAIN b |-> IF k \in DOMAIN b THEN b[k] ELSE a[k]]

\* the elements of a set of integers in ascending order
RECURSIVE Ascending(_)
Ascending(S) == IF S = {} THEN <<>> ELSE <<MinOf(S)>> \o Ascending(S \ {MinOf(S)})

\* the first exception the four float(line[...]) conversions raise, "" if none
LineFloatError(line) ==
    LET errs == SelectSeq(<<FloatError(line.start_x), FloatError(line.start_y),
                            FloatError(line.end_x), FloatError(line.end_y)>>,
                          LAMBDA e : e # "")
    IN IF errs = <<>> THEN "" ELSE Head(errs)

\* "except ValueError" alone, as the clustering pass has it
SpacesCatchesValueErrorOnly(e) == e = "ValueError"

\* except (KeyError, TypeError, ValueError) around the four conversions
SpacesCatches(e) == e \in {"KeyError", "TypeError", "ValueError"}

\* round(c * snap) / snap with snap = 1.0 / tol, for tol > 0
Snap(c, tol) == QMul(F(RoundHalfEven(c[1] * tol[2], c[2] * tol[1])), tol)

\* AxisGrid._normalize_point with the first key computed from y
NormalizeYY(x, y, tol) ==
    IF QLe(tol, F(0)) THEN [exc |-> "ValueError", node |-> <<>>]
    ELSE [exc |-> "", node |-> <<Snap(y, tol), Snap(y, tol)>>]

_normalize_point(x, y, tol) ==
    IF QLe(tol, F(0)) THEN [exc |-> "ValueError", node |-> <<>>]
    ELSE [exc |-> "", node |-> <<Snap(x, tol), Snap(y, tol)>>]

\* point_to_lines[p].append(i) on a defaultdict(list)
Append2(f, p, i) ==
    [n \in DOMAIN f \cup {p} |->
        IF n = p THEN (IF p \in DOMAIN f THEN f[p] ELSE <<>>) \o <<i>> ELSE f[n]]

\* point_coords[p] = c: the last endpoint seen at a node replaces the first
SetLast(f, p, c) ==
    [n \in DOMAIN f \cup {p} |-> IF n = p THEN c ELSE f[n]]

\* point_coords.setdefault(p, c)
SetDefault(f, p, c) ==
    [n \in DOMAIN f \cup {p} |-> IF n \in DOMAIN f THEN f[n] ELSE c]

EmptyDict == [n \in {} |-> <<>>]

NoGeoms == [exc |-> "", line_geoms |-> <<>>, point_to_lines |-> EmptyDict,
            point_coords |-> EmptyDict]

\* the first loop: records i..Len(lines), given what the earlier ones built
RECURSIVE ReadLines(_, _, _, _)
ReadLines(lines, i, tol, st) ==
    IF i > Len(lines) THEN st
    ELSE LET line == lines[i] IN
         IF LineFloatError(line) # ""
         THEN IF SpacesCatches(LineFloatError(line))
              THEN ReadLines(lines, i + 1, tol, st)
              ELSE [st EXCEPT !.exc = LineFloatError(line)]
         ELSE LET sx == line.start_x.v
                  sy == line.start_y.v
                  ex == line.end_x.v
                  ey == line.end_y.v
                  n1 == _normalize_point(sx, sy, tol)
                  n2 == _normalize_point(ex, ey, tol)
                  p1 == n1.node
                  p2 == n2.node
                  k == Len(st.line_geoms)
                  geom == [nodes |-> <<p1, p2>>,
                           midpoint |-> <<QDiv(QAdd(sx, ex), F(2)), QDiv(QAdd(sy, ey), F(2))>>,
                           start |-> <<sx, sy>>,
                           end |-> <<ex, ey>>,
                           layer |-> line.layer,
                           raw_index |-> i - 1]
              IN IF n1.exc # "" THEN [st EXCEPT !.exc = n1.exc]
                 ELSE IF n2.exc # "" THEN [st EXCEPT !.exc = n2.exc]
                 ELSE IF "nan" \in {line.start_x.kind, line.start_y.kind,
                                    line.end_x.kind, line.end_y.kind}
                      THEN [st EXCEPT !.exc = "ValueError"]
                 ELSE ReadLines(lines, i + 1, tol,
                        [exc |-> "",
                         line_geoms |-> Append(st.line_geoms, geom),
                         point_to_lines |-> Append2(Append2(st.point_to_lines, p1, k), p2, k),
                         point_coords |-> SetDefault(SetDefault(st.point_coords, p1, <<sx, sy>>),
                                                     p2, <<ex, ey>>)])

\* the traversal following the lines at the first node of each line only
RECURSIVE BfsFirstNodeOnly(_, _, _, _)
BfsFirstNodeOnly(g, queue, component_lines, component_nodes) ==
    IF queue = <<>> THEN [lines |-> component_lines, nodes |-> component_nodes]
    ELSE LET line_idx == Head(queue) IN
         IF line_idx \in component_lines
         THEN BfsFirstNodeOnly(g, Tail(queue), component_lines, component_nodes)
         ELSE LET added == component_lines \cup {line_idx}
                  node_a == g.line_geoms[line_idx + 1].nodes[1]
                  node_b == g.line_geoms[line_idx + 1].nodes[2]
                  fresh(n) == n \notin added
              IN BfsFirstNodeOnly(g,
                     Tail(queue) \o SelectSeq(g.point_to_lines[node_a], fresh),
                     added,
                     component_nodes \cup {node_a, node_b})

\* the while loop over the deque: the component of the lines in queue
RECURSIVE Bfs(_, _, _, _)
Bfs(g, queue, component_lines, component_nodes) ==
    IF queue = <<>> THEN [lines |-> component_lines, nodes |-> component_nodes]
    ELSE LET line_idx == Head(queue) IN
         IF line_idx \in component_lines
         THEN Bfs(g, Tail(queue), component_lines, component_nodes)
         ELSE LET added == component_lines \cup {line_idx}
                  node_a == g.line_geoms[line_idx + 1].nodes[1]
                  node_b == g.line_geoms[line_idx + 1].nodes[2]
                  fresh(n) == n \notin added
              IN Bfs(g,
                     Tail(queue) \o SelectSeq(g.point_to_lines[node_a], fresh)
                                 \o SelectSeq(g.point_to_lines[node_b], fresh),
                     added,
                     component_nodes \cup {node_a, node_b})

\* node_degree[node] after the loop over component_lines
NodeDegree(g, component_lines, node) ==
    Cardinality({i \in component_lines : g.line_geoms[i + 1].nodes[1] = node})
    + Cardinality({i \in component_lines : g.line_geoms[i + 1].nodes[2] = node})

\* is_closed without the degree test
IsClosedBySize(g, comp, min_lines) ==
    /\ Cardinality(comp.lines) >= min_lines
    /\ Cardinality(comp.nodes) >= min_lines

\* is_closed with the degree test weakened to "no dangling end"
IsClosedAtLeast2(g, comp, min_lines) ==
    /\ Cardinality(comp.lines) >= min_lines
    /\ Cardinality(comp.nodes) >= min_lines
    /\ \A node \in comp.nodes : NodeDegree(g, comp.lines, node) >= 2

is_closed(g, comp, min_lines) ==
    /\ Cardinality(comp.lines) >= min_lines
    /\ Cardinality(comp.nodes) >= min_lines
    /\ \A node \in comp.nodes : NodeDegree(g, comp.lines, node) = 2

\* sum(point_coords[node][k] for node in component_nodes) / len(component_nodes)
RECURSIVE CoordSum(_, _, _)
CoordSum(g, nodes, k) ==
    IF nodes = {} THEN F(0)
    ELSE LET node == CHOOSE n \in nodes : TRUE
         IN QAdd(g.point_coords[node][k], CoordSum(g, nodes \ {node}, k))

Centroid(g, nodes, k) == QDiv(CoordSum(g, nodes, k), F(Cardinality(nodes)))

ClosedEntry(xs, ys, g, comp) ==
    LET cx == Centroid(g, comp.nodes, 1)
        cy == Centroid(g, comp.nodes, 2)
    IN Merge([line_count |-> Cardinality(comp.lines),
              node_count |-> Cardinality(comp.nodes),
              center_x |-> Fmt4(cx),
              center_y |-> Fmt4(cy)],
             locate_point(xs, ys, cx, cy))

\* an open_lines entry numbered by the line's position among the lines read
OpenEntryByPosition(xs, ys, g, line_idx) ==
    LET geom == g.line_geoms[line_idx + 1]
    IN Merge([line_index |-> line_idx,
              layer |-> geom.layer,
              mid_x |-> Fmt4(geom.midpoint[1]),
              mid_y |-> Fmt4(geom.midpoint[2])],
             locate_point(xs, ys, geom.midpoint[1], geom.midpoint[2]))

OpenEntry(xs, ys, g, line_idx) ==
    LET geom == g.line_geoms[line_idx + 1]
    IN Merge([line_index |-> geom.raw_index,
              layer |-> geom.layer,
              mid_x |-> Fmt4(geom.midpoint[1]),
              mid_y |-> Fmt4(geom.midpoint[2])],
             locate_point(xs, ys, geom.midpoint[1], geom.midpoint[2]))

\* the loop over idx without the test "if idx in visited"
RECURSIVE ComponentsUnvisited(_, _, _, _, _, _)
ComponentsUnvisited(xs, ys, g, min_lines, idx, acc) ==
    IF idx >= Len(g.line_geoms) THEN acc
    ELSE LET comp == Bfs(g, <<idx>>, {}, {})
             order == Ascending(comp.lines)
         IN ComponentsUnvisited(xs, ys, g, min_lines, idx + 1,
              IF is_closed(g, comp, min_lines)
              THEN [acc EXCEPT !.visited = @ \cup comp.lines,
                               !.closed_spaces = Append(@, ClosedEntry(xs, ys, g, comp))]
              ELSE [acc EXCEPT !.visited = @ \cup comp.lines,
                               !.open_lines = @ \o [j \in 1..Len(order) |->
                                                      OpenEntry(xs, ys, g, order[j])]])

\* the loop "for idx in range(len(line_geoms))" from idx on
RECURSIVE Components(_, _, _, _, _, _)
Components(xs, ys, g, min_lines, idx, acc) ==
    IF idx >= Len(g.line_geoms) THEN acc
    ELSE IF idx \in acc.visited THEN Components(xs, ys, g, min_lines, idx + 1, acc)
    ELSE LET comp == Bfs(g, <<idx>>, {}, {})
             order == Ascending(comp.lines)
         IN Components(xs, ys, g, min_lines, idx + 1,
              IF is_closed(g, comp, min_lines)
              THEN [acc EXCEPT !.visited = @ \cup comp.lines,
                               !.closed_spaces = Append(@, ClosedEntry(xs, ys, g, comp))]
              ELSE [acc EXCEPT !.visited = @ \cup comp.lines,
                               !.open_lines = @ \o [j \in 1..Len(order) |->
                                                      OpenEntry(xs, ys, g, order[j])]])

\* The same two loops with their work counted: expanded[i] is the number of
\* times line i was added to a component and had its neighbours enqueued,
\* scanned[n] the number of times the list point_to_lines[n] was iterated.
NoCounts(g) ==
    [expanded |-> [i \in 0..(Len(g.line_geoms) - 1) |-> 0],
     scanned |-> [n \in DOMAIN g.point_to_lines |-> 0]]

RECURSIVE BfsCounted(_, _, _, _)
BfsCounted(g, queue, component_lines, count) ==
    IF queue = <<>> THEN [lines |-> component_lines, count |-> count]
    ELSE LET line_idx == Head(queue) IN
         IF line_idx \in component_lines
         THEN BfsCounted(g, Tail(queue), component_lines, count)
         ELSE LET added == component_lines \cup {line_idx}
                  node_a == g.line_geoms[line_idx + 1].nodes[1]
                  node_b == g.line_geoms[line_idx + 1].nodes[2]
                  fresh(n) == n \notin added
                  after_a == [count.scanned EXCEPT ![node_a] = @ + 1]
                  after_b == [after_a EXCEPT ![node_b] = @ + 1]
              IN BfsCounted(g,
                     Tail(queue) \o SelectSeq(g.point_to_lines[node_a], fresh)
                                 \o SelectSeq(g.point_to_lines[node_b], fresh),
                     added,
                     [expanded |-> [count.expanded EXCEPT ![line_idx] = @ + 1],
                      scanned |-> after_b])

RECURSIVE ComponentsCounted(_, _, _, _)
ComponentsCounted(g, idx, visited, count) ==
    IF idx >= Len(g.line_geoms) THEN count
    ELSE IF idx \in visited THEN ComponentsCounted(g, idx + 1, visited, count)
    ELSE LET comp == BfsCounted(g, <<idx>>, {}, count)
         IN ComponentsCounted(g, idx + 1, visited \cup comp.lines, comp.count)

\* _locate_line_spaces checking the tolerance before it reads the lines
LocateLineSpacesEager(xs, ys, lines, min_lines, tol) ==
    IF QLe(tol, F(0)) THEN [exc |-> "ValueError"]
    ELSE LET g == ReadLines(lines, 1, tol, NoGeoms) IN
         IF g.exc # "" THEN [exc |-> g.exc]
         ELSE IF g.line_geoms = <<>> THEN [closed_spaces |-> <<>>, open_lines |-> <<>>]
         ELSE LET acc == Components(xs, ys, g, min_lines, 0,
                                    [visited |-> {}, closed_spaces |-> <<>>, open_lines |-> <<>>])
              IN [closed_spaces |-> acc.closed_spaces, open_lines |-> acc.open_lines]

_locate_line_spaces(xs, ys, lines, min_lines, tol) ==
    LET g == ReadLines(lines, 1, tol, NoGeoms) IN
    IF g.exc # "" THEN [exc |-> g.exc]
    ELSE IF g.line_geoms = <<>> THEN [closed_spaces |-> <<>>, open_lines |-> <<>>]
    ELSE LET acc == Components(xs, ys, g, min_lines, 0,
                               [visited |-> {}, closed_spaces |-> <<>>, open_lines |-> <<>>])
         IN [closed_spaces |-> acc.closed_spaces, open_lines |-> acc.open_lines]

----------------------------------------------------------------------------
(* GridNetwork._analyze_structure: clustering lines into axes, then labels *)
(* Coordinates of the records it reads are finite numbers.                 *)

\* str.upper() on the letters the layer names and keywords are made of
UpperChar(c) ==
    CASE c = "a" -> "A"
      [] c = "x" -> "X"
      [] c = "i" -> "I"
      [] c = "s" -> "S"
      [] OTHER -> c

Upper(str) == [i \in DOMAIN str |-> UpperChar(str[i])]

\* k in layer
Contains(k, layer) ==
    \E i \in 0..(Len(layer) - Len(k)) : SubSeq(layer, i + 1, i + Len(k)) = k

\* str.strip()
RECURSIVE Strip(_)
Strip(str) ==
    IF str = <<>> THEN str
    ELSE IF Head(str) = " " THEN Strip(Tail(str))
    ELSE IF str[Len(str)] = " " THEN Strip(SubSeq(str, 1, Len(str) - 1))
    ELSE str

\* step 1: the candidate lines; no keywords (None or an empty list) keeps all
Candidates(lines, layer_keywords) ==
    IF layer_keywords = <<>> THEN lines
    ELSE SelectSeq(lines, LAMBDA line :
            \E i \in DOMAIN layer_keywords :
                Contains(Upper(layer_keywords[i]), Upper(line.layer)))

\* "except ValueError" around the conversions of a line and of a text
ClusterCatches(e) == e = "ValueError"

\* the branch a line takes with the unit threshold included in "near"
OrientationLe(x1, y1, x2, y2) ==
    IF QLe(QAbs(QSub(x1, x2)), F(1)) THEN "vertical"
    ELSE IF QLe(QAbs(QSub(y1, y2)), F(1)) THEN "horizontal"
    ELSE "none"

\* the branch of "if abs(x1 - x2) < 1.0 ... elif abs(y1 - y2) < 1.0" a line takes
Orientation(x1, y1, x2, y2) ==
    IF QLt(QAbs(QSub(x1, x2)), F(1)) THEN "vertical"
    ELSE IF QLt(QAbs(QSub(y1, y2)), F(1)) THEN "horizontal"
    ELSE "none"

\* round((a + b) / 2 / tolerance) * tolerance, tolerance # 0
BucketKey(a, b, tol) ==
    LET t == QDiv(QDiv(QAdd(a, b), F(2)), tol)
    IN QMul(F(RoundHalfEven(t[1], t[2])), tol)

\* groups[key].append(seg) on a defaultdict(list), which keeps the keys in
\* the order of their first use
GroupAppend(groups, key, seg) ==
    IF \E i \in DOMAIN groups : groups[i].key = key
    THEN [i \in DOMAIN groups |->
            IF groups[i].key = key
            THEN [groups[i] EXCEPT !.lines = Append(@, seg)]
            ELSE groups[i]]
    ELSE Append(groups, [key |-> key, lines |-> <<seg>>])

NoGroups == [exc |-> "", vertical_groups |-> <<>>, horizontal_groups |-> <<>>]

\* step 2: the loop over candidate_lines from the i-th on
RECURSIVE Grouped(_, _, _, _)
Grouped(cands, i, tol, st) ==
    IF i > Len(cands) THEN st
    ELSE LET line == cands[i]
             err == LineFloatError(line)
             x1 == line.start_x.v
             y1 == line.start_y.v
             x2 == line.end_x.v
             y2 == line.end_y.v
             seg == [start_x |-> x1, start_y |-> y1, end_x |-> x2, end_y |-> y2]
             dir == Orientation(x1, y1, x2, y2)
         IN IF err # ""
            THEN IF ClusterCatches(err) THEN Grouped(cands, i + 1, tol, st)
                 ELSE [st EXCEPT !.exc = err]
            ELSE IF dir = "none" THEN Grouped(cands, i + 1, tol, st)
            ELSE IF tol = F(0) THEN [st EXCEPT !.exc = "ZeroDivisionError"]
            ELSE IF dir = "vertical"
                 THEN Grouped(cands, i + 1, tol,
                        [st EXCEPT !.vertical_groups = GroupAppend(@, BucketKey(x1, x2, tol), seg)])
                 ELSE Grouped(cands, i + 1, tol,
                        [st EXCEPT !.horizontal_groups = GroupAppend(@, BucketKey(y1, y2, tol), seg)])

\* the filter with the comparison made non-strict
TooShortLe(span, min_len) == QLe(span, min_len)

\* "if abs(max - min) < self.min_axis_length: continue"
TooShort(span, min_len) == QLt(span, min_len)

\* the values of the two named coordinates over the segments of a bucket
EndValues(segs, k1, k2) == {segs[i][k1] : i \in DOMAIN segs} \cup {segs[i][k2] : i \in DOMAIN segs}

\* the average taken over the start points only
AverageOfStarts(segs, k1, k2) ==
    QDiv(QSum([i \in DOMAIN segs |-> segs[i][k1]]), F(Len(segs)))

\* sum(seg[k1] + seg[k2] for seg in segs) / (2 * len(segs))
Average(segs, k1, k2) ==
    QDiv(QSum([i \in DOMAIN segs |-> QAdd(segs[i][k1], segs[i][k2])]), F(2 * Len(segs)))

VerticalAxis(segs) ==
    LET ys == EndValues(segs, "start_y", "end_y")
        avg_x == Average(segs, "start_x", "end_x")
    IN [label |-> <<"?">>,
        start_point |-> <<avg_x, QMinOf(ys)>>,
        end_point |-> <<avg_x, QMaxOf(ys)>>,
        is_vertical |-> TRUE,
        coordinate |-> avg_x]

HorizontalAxis(segs) ==
    LET xs == EndValues(segs, "start_x", "end_x")
        avg_y == Average(segs, "start_y", "end_y")
    IN [label |-> <<"?">>,
        start_point |-> <<QMinOf(xs), avg_y>>,
        end_point |-> <<QMaxOf(xs), avg_y>>,
        is_vertical |-> FALSE,
        coordinate |-> avg_y]

\* step 3: one axis per bucket that is long enough, vertical buckets first
RECURSIVE VerticalAxes(_, _)
VerticalAxes(groups, min_len) ==
    IF groups = <<>> THEN <<>>
    ELSE LET axis == VerticalAxis(Head(groups).lines)
         IN (IF TooShort(QAbs(QSub(axis.end_point[2], axis.start_point[2])), min_len)
             THEN <<>> ELSE <<axis>>) \o VerticalAxes(Tail(groups), min_len)

RECURSIVE HorizontalAxes(_, _)
HorizontalAxes(groups, min_len) ==
    IF groups = <<>> THEN <<>>
    ELSE LET axis == HorizontalAxis(Head(groups).lines)
         IN (IF TooShort(QAbs(QSub(axis.end_point[1], axis.start_point[1])), min_len)
             THEN <<>> ELSE <<axis>>) \o HorizontalAxes(Tail(groups), min_len)

\* the square of math.sqrt((tx - p[0]) ** 2 + (ty - p[1]) ** 2)
DistSq(tx, ty, p) ==
    QAdd(QMul(QSub(tx, p[1]), QSub(tx, p[1])), QMul(QSub(ty, p[2]), QSub(ty, p[2])))

\* the first exception the two conversions of a text raise, "" if none
TextFloatError(text) ==
    IF FloatError(text.x) # "" THEN FloatError(text.x) ELSE FloatError(text.y)

\* the exception text["content"].strip() raises, "" if none
ContentError(text) ==
    CASE text.content.kind = "str" -> ""
      [] text.content.kind = "absent" -> "KeyError"
      [] text.content.kind = "none" -> "AttributeError"

\* the length filter with the limit taken as 10 characters
TooLongOver10(content) == Len(content) > 10

\* "if len(content) > 8: continue"
TooLong(content) == Len(content) > 8

NoLabel == [exc |-> "", best_label |-> None, min_dist |-> None]

\* step 4 for one axis: the loop over raw_texts from the i-th on; distances
\* are compared by their squares, min_dist = None standing for infinity
RECURSIVE BestLabel(_, _, _, _, _)
BestLabel(axis, texts, i, radius, st) ==
    IF i > Len(texts) THEN st
    ELSE LET text == texts[i]
             err == TextFloatError(text)
             content == Strip(text.content.v)
             d1 == DistSq(text.x.v, text.y.v, axis.start_point)
             d2 == DistSq(text.x.v, text.y.v, axis.end_point)
             dist == IF QLe(d1, d2) THEN d1 ELSE d2
         IN IF err # ""
            THEN IF ClusterCatches(err) THEN BestLabel(axis, texts, i + 1, radius, st)
                 ELSE [st EXCEPT !.exc = err]
            ELSE IF ContentError(text) # "" THEN [st EXCEPT !.exc = ContentError(text)]
            ELSE IF TooLong(content) THEN BestLabel(axis, texts, i + 1, radius, st)
            ELSE IF /\ QLt(F(0), radius)
                    /\ QLt(dist, QMul(radius, radius))
                    /\ (st.min_dist = None \/ QLt(dist, st.min_dist[1]))
                 THEN BestLabel(axis, texts, i + 1, radius,
                        [st EXCEPT !.best_label = Some(content), !.min_dist = Some(dist)])
                 ELSE BestLabel(axis, texts, i + 1, radius, st)

\* step 4: the loop over temp_axes from the i-th on
RECURSIVE Labelled(_, _, _, _)
Labelled(temp_axes, i, texts, radius) ==
    IF i > Len(temp_axes) THEN [exc |-> "", axes |-> temp_axes]
    ELSE LET best == BestLabel(temp_axes[i], texts, 1, radius, NoLabel)
         IN IF best.exc # "" THEN [exc |-> best.exc, axes |-> <<>>]
            ELSE IF best.best_label # None /\ best.best_label[1] # <<>>
                 THEN Labelled([temp_axes EXCEPT ![i].label = best.best_label[1]],
                               i + 1, texts, radius)
                 ELSE Labelled(temp_axes, i + 1, texts, radius)

\* the value of self.axes the call assigns, or the exception it raises
_analyze_structure(lines, texts, tol, min_len, radius, layer_keywords) ==
    LET groups == Grouped(Candidates(lines, layer_keywords), 1, tol, NoGroups)
    IN IF groups.exc # "" THEN [exc |-> groups.exc, axes |-> <<>>]
       ELSE Labelled(VerticalAxes(groups.vertical_groups, min_len)
                        \o HorizontalAxes(groups.horizontal_groups, min_len),
                     1, texts, radius)

\* the properties GridNetwork.x_axes and GridNetwork.y_axes
GridNetwork_x_axes(as) == SortedByCoordinate(SelectSeq(as, LAMBDA a : a.is_vertical))
GridNetwork_y_axes(as) == SortedByCoordinate(SelectSeq(as, LAMBDA a : ~a.is_vertical))

\* the dict to_dict makes of one GridAxis
AxisDict(a) ==
    [label |-> a.label,
     start_point |-> <<a.start_point[1], a.start_point[2]>>,
     end_point |-> <<a.end_point[1], a.end_point[2]>>,
     is_vertical |-> a.is_vertical,
     coordinate |-> a.coordinate]

\* to_dict writing the x of the start point as the coordinate of every axis
ToDictCoordinateFromStartX(as) ==
    LET dict(a) == [AxisDict(a) EXCEPT !.coordinate = a.start_point[1]]
    IN [x_axes |-> [i \in DOMAIN GridNetwork_x_axes(as) |-> dict(GridNetwork_x_axes(as)[i])],
        y_axes |-> [i \in DOMAIN GridNetwork_y_axes(as) |-> dict(GridNetwork_y_axes(as)[i])]]

\* GridNetwork.to_dict
to_dict(as) ==
    [x_axes |-> [i \in DOMAIN GridNetwork_x_axes(as) |-> AxisDict(GridNetwork_x_axes(as)[i])],
     y_axes |-> [i \in DOMAIN GridNetwork_y_axes(as) |-> AxisDict(GridNetwork_y_axes(as)[i])]]

\* GridAxis.length, squared
LengthSq(axis) == DistSq(axis.end_point[1], axis.end_point[2], axis.start_point)

----------------------------------------------------------------------------
(* DXFExtractor and DWGExtractor: what one extraction keeps of a drawing   *)
(*                                                                         *)
(* An entity of the model space is a record: shape is its kind, content    *)
(* its text, vertices its points (the two ends of a line, the centre of a  *)
(* circle, the outline of a polyline, in whole numbers), closed the flag   *)
(* of a polyline, and fails says that reading its attributes raises.       *)
(* Of an element only the fields computed from these are kept.             *)
(* faults names the calls that fail during one extraction: "missing" (the  *)
(* file does not exist), "connect" (no AutoCAD), "probe" (reading the      *)
(* active document), "open", "activate", "modelspace", "close" and         *)
(* "restore" (setting the active document back).                           *)

\* entity.dxftype()
dxftype(entity) ==
    CASE entity.shape = "text" -> "TEXT"
      [] entity.shape = "line" -> "LINE"
      [] entity.shape = "lwpolyline" -> "LWPOLYLINE"
      [] entity.shape = "circle" -> "CIRCLE"
      [] entity.shape = "arc" -> "ARC"

\* entity.ObjectName
ObjectName(entity) ==
    CASE entity.shape = "text" -> "AcDbText"
      [] entity.shape = "line" -> "AcDbLine"
      [] entity.shape = "lwpolyline" -> "AcDbPolyline"
      [] entity.shape = "circle" -> "AcDbCircle"
      [] entity.shape = "arc" -> "AcDbArc"

DefaultConfig ==
    [extract_text |-> TRUE, extract_lines |-> TRUE, extract_rects |-> TRUE,
     extract_circles |-> TRUE]

\* extract_config once "if extract_config is None" has run
Config(extract_config) ==
    IF extract_config = None THEN DefaultConfig ELSE extract_config[1]

\* extract_config.get(key, True)
Get(config, key) == IF key \in DOMAIN config THEN config[key] ELSE TRUE

\* self.elements[list].append(element)
AppendTo(elems, list, element) == [elems EXCEPT ![list] = Append(@, element)]

\* the lists left as they are where extract_from_file resets them
KeepElements(elems) == elems

\* self.elements = {"texts": [], ...} in extract_from_file
ResetElements(elems) == NoElements

\* the bounding box of a polyline's vertices
MinX(vertices) == MinOf({vertices[i][1] : i \in DOMAIN vertices})
MaxX(vertices) == MaxOf({vertices[i][1] : i \in DOMAIN vertices})
MinY(vertices) == MinOf({vertices[i][2] : i \in DOMAIN vertices})
MaxY(vertices) == MaxOf({vertices[i][2] : i \in DOMAIN vertices})

\* DXFExtractor._extract_text
DXF_extract_text(elems, entity) ==
    IF entity.fails \/ entity.content = "" THEN elems
    ELSE AppendTo(elems, "texts", [content |-> entity.content])

\* DXFExtractor._extract_line
DXF_extract_line(elems, entity) ==
    IF entity.fails THEN elems
    ELSE AppendTo(elems, "lines", [start |-> entity.vertices[1], end |-> entity.vertices[2]])

\* DXFExtractor._extract_polyline: a closed outline of four vertices, each
\* within 0.01 of a side of the bounding box, is kept as a rect and not as a
\* polyline
DXF_extract_polyline(elems, entity) ==
    LET vertices == entity.vertices
        on_edge(v) ==
            \/ 100 * Abs(v[1] - MinX(vertices)) < 1
            \/ 100 * Abs(v[1] - MaxX(vertices)) < 1
            \/ 100 * Abs(v[2] - MinY(vertices)) < 1
            \/ 100 * Abs(v[2] - MaxY(vertices)) < 1
        is_rect == \A i \in DOMAIN vertices : on_edge(vertices[i])
    IN IF entity.fails \/ Len(vertices) < 3 THEN elems
       ELSE IF entity.closed /\ Len(vertices) = 4 /\ is_rect
            THEN AppendTo(elems, "rects",
                          [x |-> MinX(vertices), y |-> MinY(vertices),
                           width |-> MaxX(vertices) - MinX(vertices),
                           height |-> MaxY(vertices) - MinY(vertices)])
            ELSE AppendTo(elems, "polylines",
                          [vertices |-> vertices, is_closed |-> entity.closed])

\* DXFExtractor._extract_circle
DXF_extract_circle(elems, entity) ==
    IF entity.fails THEN elems
    ELSE AppendTo(elems, "circles", [center |-> entity.vertices[1]])

\* DXFExtractor.extract_from_file: the loop "for entity in msp"
RECURSIVE DXF_extract_entities(_, _, _)
DXF_extract_entities(elems, entities, config) ==
    IF entities = <<>> THEN elems
    ELSE LET entity == Head(entities)
             entity_type == dxftype(entity)
             after ==
                 IF Get(config, "extract_text") /\ entity_type \in {"TEXT", "MTEXT"}
                 THEN DXF_extract_text(elems, entity)
                 ELSE IF Get(config, "extract_lines") /\ entity_type = "LINE"
                 THEN DXF_extract_line(elems, entity)
                 ELSE IF Get(config, "extract_rects")
                         /\ entity_type \in {"LWPOLYLINE", "POLYLINE"}
                 THEN DXF_extract_polyline(elems, entity)
                 ELSE IF Get(config, "extract_circles") /\ entity_type = "CIRCLE"
                 THEN DXF_extract_circle(elems, entity)
                 ELSE elems
         IN DXF_extract_entities(after, Tail(entities), config)

\* DXFExtractor.extract_from_file: the lists it leaves and what it returns
DXF_extract_from_file(elems, entities, extract_config, faults) ==
    IF "missing" \in faults
    THEN [elements |-> elems, result |-> [exc |-> "FileNotFoundError"]]
    ELSE IF "open" \in faults
    THEN [elements |-> elems, result |-> [exc |-> "RuntimeError"]]
    ELSE IF "modelspace" \in faults
    THEN [elements |-> ResetElements(elems), result |-> [exc |-> "Exception"]]
    ELSE LET extracted ==
                 DXF_extract_entities(ResetElements(elems), entities, Config(extract_config))
         IN [elements |-> extracted, result |-> extracted]

\* element.copy() with element["type"] = type
Typed(element, type) ==
    [k \in DOMAIN element \cup {"type"} |-> IF k = "type" THEN type ELSE element[k]]

TypedList(list, type) == [i \in DOMAIN list |-> Typed(list[i], type)]

\* DXFExtractor.get_all_elements
DXF_get_all_elements(elems) ==
    TypedList(elems.texts, "text") \o TypedList(elems.lines, "line")
        \o TypedList(elems.rects, "rect") \o TypedList(elems.circles, "circle")

\* DWGExtractor._extract_text
DWG_extract_text(elems, entity) ==
    IF entity.fails \/ entity.content = "" THEN elems
    ELSE AppendTo(elems, "texts", [type |-> "TEXT", content |-> entity.content])

\* DWGExtractor._extract_line
DWG_extract_line(elems, entity) ==
    IF entity.fails THEN elems
    ELSE AppendTo(elems, "lines",
                  [type |-> "LINE", start |-> entity.vertices[1], end |-> entity.vertices[2]])

\* DWGExtractor._extract_polyline: every polyline is kept, and a closed one of
\* four vertices is kept as a rect as well
DWG_extract_polyline(elems, entity) ==
    LET vertices == entity.vertices
        recorded == AppendTo(elems, "polylines",
                             [type |-> "POLYLINE", vertices |-> vertices,
                              is_closed |-> entity.closed])
    IN IF entity.fails THEN elems
       ELSE IF entity.closed /\ Len(vertices) = 4
            THEN AppendTo(recorded, "rects",
                          [type |-> "RECT", x |-> MinX(vertices), y |-> MinY(vertices),
                           width |-> MaxX(vertices) - MinX(vertices),
                           height |-> MaxY(vertices) - MinY(vertices),
                           is_closed |-> entity.closed])
            ELSE recorded

\* DWGExtractor._extract_circle
DWG_extract_circle(elems, entity) ==
    IF entity.fails THEN elems
    ELSE AppendTo(elems, "circles", [type |-> "CIRCLE", center |-> entity.vertices[1]])

\* DWGExtractor.extract_from_file: the loop "for i in range(entity_count)"
RECURSIVE DWG_extract_entities(_, _, _)
DWG_extract_entities(elems, entities, config) ==
    IF entities = <<>> THEN elems
    ELSE LET entity == Head(entities)
             entity_type == ObjectName(entity)
             after ==
                 IF Get(config, "extract_text") /\ entity_type \in {"AcDbText", "AcDbMText"}
                 THEN DWG_extract_text(elems, entity)
                 ELSE IF Get(config, "extract_lines") /\ entity_type = "AcDbLine"
                 THEN DWG_extract_line(elems, entity)
                 ELSE IF Get(config, "extract_rects")
                         /\ entity_type \in {"AcDbPolyline", "AcDb2dPolyline", "AcDbLwPolyline"}
                 THEN DWG_extract_polyline(elems, entity)
                 ELSE IF Get(config, "extract_circles") /\ entity_type = "AcDbCircle"
                 THEN DWG_extract_circle(elems, entity)
                 ELSE elems
         IN DWG_extract_entities(after, Tail(entities), config)

\* a finally block that restores the active document and closes nothing
FinallyWithoutClose(a, doc, original_doc, faults, pick) ==
    IF original_doc = 0 THEN a
    ELSE LET asked == [a EXCEPT !.log = Append(@, [request |-> "Activate",
                                                    doc |-> original_doc, save |-> FALSE])]
         IN IF "restore" \in faults THEN asked ELSE [asked EXCEPT !.active = original_doc]

\* DWGExtractor.extract_from_file: the finally block.  doc and original_doc
\* are 0 for None; pick is the document AutoCAD makes active when the active
\* one is closed (0 when none is left).
Finally(a, doc, original_doc, faults, pick) ==
    LET requested == [a EXCEPT !.log = Append(@, [request |-> "Close", doc |-> doc,
                                                  save |-> FALSE])]
        closed ==
            IF doc = 0 THEN a
            ELSE IF "close" \in faults THEN requested
            ELSE [requested EXCEPT !.documents = @ \ {doc},
                                   !.active = IF @ = doc THEN pick ELSE @]
        asked == [closed EXCEPT !.log = Append(@, [request |-> "Activate",
                                                   doc |-> original_doc, save |-> FALSE])]
    IN IF original_doc = 0 THEN closed
       ELSE IF "restore" \in faults THEN asked
       ELSE [asked EXCEPT !.active = original_doc]

\* DWGExtractor.extract_from_file: the lists it leaves, what it returns and
\* what it has done to AutoCAD.  Documents.Open makes the document it
\* returns the active one.
DWG_extract_from_file(elems, a0, entities, extract_config, faults, pick) ==
    LET a == [a0 EXCEPT !.before = a0.active, !.opened = 0, !.log = <<>>]
        original_doc == IF "probe" \in faults \/ a.documents = {} THEN 0 ELSE a.active
        doc == MaxOf(a.documents \cup {0}) + 1
        opened == [a EXCEPT !.documents = @ \cup {doc}, !.active = doc, !.opened = doc]
    IN IF "missing" \in faults
       THEN [elements |-> elems, acad |-> Finally(a, 0, 0, faults, pick),
             result |-> [exc |-> "FileNotFoundError"]]
       ELSE IF "connect" \in faults
       THEN [elements |-> elems, acad |-> Finally(a, 0, 0, faults, pick),
             result |-> [exc |-> "RuntimeError"]]
       ELSE IF "open" \in faults
       THEN [elements |-> elems, acad |-> Finally(a, 0, original_doc, faults, pick),
             result |-> [exc |-> "RuntimeError"]]
       ELSE IF "activate" \in faults
       THEN [elements |-> elems, acad |-> Finally(opened, doc, original_doc, faults, pick),
             result |-> [exc |-> "RuntimeError"]]
       ELSE IF "modelspace" \in faults
       THEN [elements |-> ResetElements(elems),
             acad |-> Finally(opened, doc, original_doc, faults, pick),
             result |-> [exc |-> "Exception"]]
       ELSE LET extracted ==
                    DWG_extract_entities(ResetElements(elems), entities,
                                         Config(extract_config))
            IN [elements |-> extracted,
                acad |-> Finally(opened, doc, original_doc, faults, pick),
                result |-> extracted]

\* get_all_elements with the polylines list added
GetAllElementsWithPolylines(elems) ==
    elems.texts \o elems.lines \o elems.rects \o elems.circles \o elems.polylines

\* DWGExtractor.get_all_elements
DWG_get_all_elements(elems) ==
    elems.texts \o elems.lines \o elems.rects \o elems.circles

----------------------------------------------------------------------------
(* The locator specification: a grid built from a snapshot, then one query *)

Labels == {<<"A">>, <<"B">>}
\* axes at 0 and 10, probed below, on, midway between and above them
GridCoords == {F(0), F(10)}
Probes == {F(-1), F(0), F(5), F(10), F(11)}

AxisDicts == [label : Labels, coordinate : GridCoords]
Snapshots == [x_axes : SeqsUpTo(AxisDicts, MaxAxes), y_axes : SeqsUpTo(AxisDicts, MaxAxes)]
Fields == {Num(v) : v \in Probes} \cup {Bad(k) : k \in BadKinds}
Entities == [x : Fields, y : Fields]

NoCall == [op |-> "none"]
NoResult == [none |-> TRUE]

NetIdle ==
    /\ tolerance = F(0)
    /\ min_axis_length = F(0)
    /\ search_radius = F(0)
    /\ raw_lines = <<>>
    /\ raw_texts = <<>>
    /\ axes = <<>>

\* AxisGrid.__init__ on an in-memory snapshot
InitLocate ==
    /\ NetIdle
    /\ \E grid_data \in Snapshots :
          /\ x_axes = SortedByCoordinate(grid_data.x_axes)
          /\ y_axes = SortedByCoordinate(grid_data.y_axes)
    /\ call = NoCall
    /\ result = NoResult
    /\ history = <<>>
    /\ ExtIdle

Idle == call = NoCall

SpanCall ==
    /\ Idle
    /\ \E dir \in {"x", "y"}, coord \in Probes :
          /\ call' = [op |-> "_span", dir |-> dir, coord |-> coord]
          /\ result' = _span(IF dir = "x" THEN x_axes ELSE y_axes, coord)
    /\ UNCHANGED <<netVars, gridVars, history, extVars>>

NearestAxisCall ==
    /\ Idle
    /\ \E dir \in {"x", "y"}, coord \in Probes :
          /\ call' = [op |-> "_nearest_axis", dir |-> dir, coord |-> coord]
          /\ result' = _nearest_axis(IF dir = "x" THEN x_axes ELSE y_axes, coord)
    /\ UNCHANGED <<netVars, gridVars, history, extVars>>

LocatePoint ==
    /\ Idle
    /\ \E x \in Probes, y \in Probes :
          /\ call' = [op |-> "locate_point", x |-> x, y |-> y]
          /\ result' = locate_point(x_axes, y_axes, x, y)
    /\ UNCHANGED <<netVars, gridVars, history, extVars>>

LocateEntity ==
    /\ Idle
    /\ \E entity \in Entities :
          /\ call' = [op |-> "locate_entity", entity |-> entity]
          /\ result' = locate_entity(x_axes, y_axes, entity)
    /\ UNCHANGED <<netVars, gridVars, history, extVars>>

NextLocate == SpanCall \/ NearestAxisCall \/ LocatePoint \/ LocateEntity

SpecLocate == InitLocate /\ [][NextLocate]_vars

----------------------------------------------------------------------------
(* The space-detection specification: one pass over a list of line records *)

SpacePoints == <<<<0, 0>>, <<1, 0>>, <<3, 1>>>>
SpaceTolerances == {F(-1), F(0), F(1), F(2)}
SpaceGrid == [x_axes |-> <<[label |-> <<"B">>, coordinate |-> F(2)],
                           [label |-> <<"A">>, coordinate |-> F(0)]>>,
              y_axes |-> <<[label |-> <<"1">>, coordinate |-> F(0)]>>]

Line(p, q) == [start_x |-> Num(F(p[1])), start_y |-> Num(F(p[2])),
               end_x |-> Num(F(q[1])), end_y |-> Num(F(q[2])), layer |-> <<"W", "A", "L", "L">>]
\* every segment between two of the points (a point with itself included),
\* drawn in one direction, and one of them drawn in the other direction too
GoodLines == {Line(SpacePoints[ij[1]], SpacePoints[ij[2]]) :
                 ij \in {kl \in (DOMAIN SpacePoints) \X (DOMAIN SpacePoints) : kl[1] <= kl[2]}}
             \cup {Line(SpacePoints[2], SpacePoints[1])}
\* records one of whose coordinates float() or round() rejects
BadLines == {[Line(<<0, 0>>, <<1, 0>>) EXCEPT !.end_y = [kind |-> k, v |-> F(0)]] :
                k \in BadKinds \cup {"nan"}}
LineRecords == GoodLines \cup BadLines

InitSpaces ==
    /\ NetIdle
    /\ x_axes = SortedByCoordinate(SpaceGrid.x_axes)
    /\ y_axes = SortedByCoordinate(SpaceGrid.y_axes)
    /\ call = NoCall
    /\ result = NoResult
    /\ history = <<>>
    /\ ExtIdle

\* the 10 x 10 square, drawn corner to corner, with min_lines = 4 and
\* point_tolerance = 1e-3
ScenarioA ==
    [lines |-> <<Line(<<0, 0>>, <<10, 0>>), Line(<<10, 0>>, <<10, 10>>),
                 Line(<<10, 10>>, <<0, 10>>), Line(<<0, 10>>, <<0, 0>>)>>,
     min_lines |-> 4,
     tolerance |-> Q(1, 1000)]

\* the passes tried: every short list of records, and the square
SpaceCalls ==
    [lines : SeqsUpTo(LineRecords, MaxLines), min_lines : 1..MaxMinLines,
     tolerance : SpaceTolerances] \cup {ScenarioA}

LocateLineSpaces ==
    /\ Idle
    /\ \E c \in SpaceCalls :
          /\ call' = [op |-> "_locate_line_spaces", lines |-> c.lines,
                      min_lines |-> c.min_lines, tolerance |-> c.tolerance]
          /\ result' = _locate_line_spaces(x_axes, y_axes, c.lines, c.min_lines, c.tolerance)
    /\ UNCHANGED <<netVars, gridVars, history, extVars>>

NextSpaces == LocateLineSpaces

SpecSpaces == InitSpaces /\ [][NextSpaces]_vars

----------------------------------------------------------------------------
(* The query specification: up to MaxCalls calls in a row on one AxisGrid *)

QueryProbes == {F(-1), F(1)}
QueryEntities == [x : {Num(F(1)), Bad("none")}, y : {Num(F(1)), Bad("absent")}]
\* no line, one open line, and two lines closing a space between two nodes
QueryLineLists ==
    {<<>>,
     <<Line(SpacePoints[1], SpacePoints[2])>>,
     <<Line(SpacePoints[1], SpacePoints[2]), Line(SpacePoints[2], SpacePoints[1])>>}
QueryTolerance == F(1)

\* history once the call in progress has returned
Earlier ==
    IF call = NoCall THEN history ELSE Append(history, [call |-> call, result |-> result])

\* a locate_point whose span scan consumes the axes it passes
QueryPointConsuming ==
    /\ Len(Earlier) < MaxCalls
    /\ \E x \in QueryProbes, y \in QueryProbes :
          /\ call' = [op |-> "locate_point", x |-> x, y |-> y]
          /\ result' = locate_point(x_axes, y_axes, x, y)
          /\ x_axes' = SelectSeq(x_axes, LAMBDA axis : QLt(x, axis.coordinate))
    /\ history' = Earlier
    /\ UNCHANGED <<netVars, y_axes, extVars>>

QueryPoint ==
    /\ Len(Earlier) < MaxCalls
    /\ \E x \in QueryProbes, y \in QueryProbes :
          /\ call' = [op |-> "locate_point", x |-> x, y |-> y]
          /\ result' = locate_point(x_axes, y_axes, x, y)
    /\ history' = Earlier
    /\ UNCHANGED <<netVars, gridVars, extVars>>

QueryEntity ==
    /\ Len(Earlier) < MaxCalls
    /\ \E entity \in QueryEntities :
          /\ call' = [op |-> "locate_entity", entity |-> entity]
          /\ result' = locate_entity(x_axes, y_axes, entity)
    /\ history' = Earlier
    /\ UNCHANGED <<netVars, gridVars, extVars>>

QuerySpaces ==
    /\ Len(Earlier) < MaxCalls
    /\ \E lines \in QueryLineLists, min_lines \in 1..MaxMinLines :
          /\ call' = [op |-> "_locate_line_spaces", lines |-> lines,
                      min_lines |-> min_lines, tolerance |-> QueryTolerance]
          /\ result' = _locate_line_spaces(x_axes, y_axes, lines, min_lines, QueryTolerance)
    /\ history' = Earlier
    /\ UNCHANGED <<netVars, gridVars, extVars>>

NextQueries == QueryPoint \/ QueryEntity \/ QuerySpaces

SpecQueries == InitSpaces /\ [][NextQueries]_vars

----------------------------------------------------------------------------
(* The clustering specification: a configured GridNetwork, then one load *)

ClusterTolerances == {F(-2), F(0), F(1), F(2)}
MinAxisLengths == {F(1), F(2)}
SearchRadii == {F(1), F(2)}

AxisLayer == <<"A", "x", "i", "s">>
WallLayer == <<"W", "A", "L", "L">>

Seg(x1, y1, x2, y2, layer) ==
    [start_x |-> Num(x1), start_y |-> Num(y1), end_x |-> Num(x2), end_y |-> Num(y2),
     layer |-> layer]

\* vertical, near-vertical, horizontal, near-horizontal and diagonal segments,
\* one shorter than a unit both ways, one on another layer
GoodSegs ==
    {Seg(F(0), F(0), F(0), F(2), AxisLayer),
     Seg(F(1), F(3), F(1), F(1), AxisLayer),
     Seg(Q(1, 2), F(0), F(0), F(1), AxisLayer),
     Seg(F(0), F(0), F(2), F(0), AxisLayer),
     Seg(F(1), Q(1, 2), F(0), F(0), AxisLayer),
     Seg(F(0), F(0), F(1), F(1), AxisLayer),
     Seg(F(0), F(0), Q(1, 2), Q(1, 2), AxisLayer),
     Seg(F(0), F(0), F(0), F(2), WallLayer)}
\* records one of whose coordinates float() rejects
BadSegs == {[Seg(F(0), F(0), F(0), F(2), AxisLayer) EXCEPT !.end_y = Bad(k)] : k \in BadKinds}
SegRecords == GoodSegs \cup BadSegs

Str(chars) == [kind |-> "str", v |-> chars]
Text(content, x, y) == [content |-> content, x |-> x, y |-> y]

Three == Str(<<"3">>)
Seven == Str(<<" ", "7", " ">>)
Long == Str(<<"2", "2", "3", "4", "5", "6", "7", "8", "9", "0">>)
Blank == Str(<<" ", " ">>)

\* the text lists tried: none, one near an axis end, a long text nearer than
\* a short one, two short ones, a blank one, and lists with a record whose
\* coordinates or content the code cannot read
TextLists ==
    {<<>>,
     <<Text(Three, Num(F(0)), Num(F(3)))>>,
     <<Text(Three, Num(F(1)), Num(F(-1)))>>,
     <<Text(Long, Num(F(0)), Num(F(2))), Text(Three, Num(F(0)), Num(F(3)))>>,
     <<Text(Three, Num(F(0)), Num(F(3))), Text(Seven, Num(F(0)), Num(Q(5, 2)))>>,
     <<Text(Blank, Num(F(0)), Num(F(2))), Text(Seven, Num(F(0)), Num(F(3)))>>,
     <<Text(Three, Bad("str"), Num(F(2))), Text(Seven, Num(F(0)), Num(F(3)))>>,
     <<Text(Three, Num(F(0)), Bad("absent")), Text(Seven, Num(F(0)), Num(F(3)))>>,
     <<Text(Three, Bad("none"), Num(F(2))), Text(Seven, Num(F(0)), Num(F(3)))>>,
     <<Text([kind |-> "absent", v |-> <<>>], Num(F(0)), Num(F(3)))>>}

KeywordLists == {<<>>, <<<<"a", "x">>>>}

\* GridNetwork.__init__
InitCluster ==
    /\ tolerance \in ClusterTolerances
    /\ min_axis_length \in MinAxisLengths
    /\ search_radius \in SearchRadii
    /\ raw_lines = <<>>
    /\ raw_texts = <<>>
    /\ axes = <<>>
    /\ x_axes = <<>>
    /\ y_axes = <<>>
    /\ call = NoCall
    /\ result = NoResult
    /\ history = <<>>
    /\ ExtIdle

\* load_from_dxf once the extractor has read the file: the records are
\* stored and _analyze_structure replaces self.axes, unless it raises
load_from_dxf ==
    /\ Idle
    /\ \E lines \in SeqsUpTo(SegRecords, MaxRawLines), texts \in TextLists,
          layer_keywords \in KeywordLists :
          LET r == _analyze_structure(lines, texts, tolerance, min_axis_length,
                                      search_radius, layer_keywords)
          IN /\ raw_lines' = lines
             /\ raw_texts' = texts
             /\ call' = [op |-> "load_from_dxf", layer_keywords |-> layer_keywords]
             /\ axes' = IF r.exc = "" THEN r.axes ELSE axes
             /\ result' = [exc |-> r.exc]
    /\ UNCHANGED <<tolerance, min_axis_length, search_radius, gridVars, history, extVars>>

NextCluster == load_from_dxf

SpecCluster == InitCluster /\ [][NextCluster]_vars

----------------------------------------------------------------------------
(* The round-trip specification: a network is loaded and serialized, an    *)
(* AxisGrid is built from the snapshot and queried                         *)

RoundTripProbes == {F(-1), F(0), Q(1, 2), F(1)}

\* GridNetwork.__init__ with one configuration
InitRoundTrip ==
    /\ InitCluster
    /\ tolerance = F(1)
    /\ min_axis_length = F(1)
    /\ search_radius = F(2)

\* GridNetwork.to_dict, on the network as the load left it
ToDict ==
    /\ call.op = "load_from_dxf"
    /\ call' = [op |-> "to_dict"]
    /\ result' = to_dict(axes)
    /\ history' = Earlier
    /\ UNCHANGED <<netVars, gridVars, extVars>>

\* AxisGrid.__init__ on the snapshot to_dict returned
AxisGridInit ==
    /\ call.op = "to_dict"
    /\ call' = [op |-> "AxisGrid", grid_source |-> result]
    /\ x_axes' = SortedByCoordinate(result.x_axes)
    /\ y_axes' = SortedByCoordinate(result.y_axes)
    /\ result' = NoResult
    /\ history' = Earlier
    /\ UNCHANGED <<netVars, extVars>>

\* the two queries, on the rebuilt grid
RebuiltSpanCall ==
    /\ call.op = "AxisGrid"
    /\ \E dir \in {"x", "y"}, coord \in RoundTripProbes :
          /\ call' = [op |-> "_span", dir |-> dir, coord |-> coord]
          /\ result' = _span(IF dir = "x" THEN x_axes ELSE y_axes, coord)
    /\ history' = Earlier
    /\ UNCHANGED <<netVars, gridVars, extVars>>

RebuiltNearestAxisCall ==
    /\ call.op = "AxisGrid"
    /\ \E dir \in {"x", "y"}, coord \in RoundTripProbes :
          /\ call' = [op |-> "_nearest_axis", dir |-> dir, coord |-> coord]
          /\ result' = _nearest_axis(IF dir = "x" THEN x_axes ELSE y_axes, coord)
    /\ history' = Earlier
    /\ UNCHANGED <<netVars, gridVars, extVars>>

NextRoundTrip ==
    load_from_dxf \/ ToDict \/ AxisGridInit \/ RebuiltSpanCall \/ RebuiltNearestAxisCall

SpecRoundTrip == InitRoundTrip /\ [][NextRoundTrip]_vars

----------------------------------------------------------------------------
(* The grids specification: the two ways a grid comes to exist, a network  *)
(* that is loaded and serialized, and an AxisGrid built from a snapshot    *)
(* written by to_dict or by anyone else                                    *)

OrientedDicts == [label : {<<"A">>}, coordinate : GridCoords, is_vertical : BOOLEAN]
AnySnapshots ==
    [x_axes : SeqsUpTo(OrientedDicts, MaxAxes), y_axes : SeqsUpTo(OrientedDicts, MaxAxes)]

\* AxisGrid.__init__ on a snapshot that no network wrote
AxisGridOfSnapshot ==
    /\ Idle
    /\ \E grid_source \in AnySnapshots :
          /\ call' = [op |-> "AxisGrid", grid_source |-> grid_source]
          /\ x_axes' = SortedByCoordinate(grid_source.x_axes)
          /\ y_axes' = SortedByCoordinate(grid_source.y_axes)
    /\ result' = NoResult
    /\ history' = Earlier
    /\ UNCHANGED <<netVars, extVars>>

\* locate_point and one space-detection pass, on a grid just built
GridProbes == {F(-1), F(10)}
GridLineLists == {<<>>, <<Line(SpacePoints[1], SpacePoints[2])>>}
GridTolerances == {F(0), F(1)}

GridLocatePoint ==
    /\ call.op = "AxisGrid"
    /\ \E x \in GridProbes, y \in GridProbes :
          /\ call' = [op |-> "locate_point", x |-> x, y |-> y]
          /\ result' = locate_point(x_axes, y_axes, x, y)
    /\ history' = Earlier
    /\ UNCHANGED <<netVars, gridVars, extVars>>

GridLocateLineSpaces ==
    /\ call.op = "AxisGrid"
    /\ \E lines \in GridLineLists, min_lines \in 1..MaxMinLines, tol \in GridTolerances :
          /\ call' = [op |-> "_locate_line_spaces", lines |-> lines,
                      min_lines |-> min_lines, tolerance |-> tol]
          /\ result' = _locate_line_spaces(x_axes, y_axes, lines, min_lines, tol)
    /\ history' = Earlier
    /\ UNCHANGED <<netVars, gridVars, extVars>>

NextGrids ==
    \/ load_from_dxf
    \/ ToDict
    \/ AxisGridInit
    \/ AxisGridOfSnapshot
    \/ GridLocatePoint
    \/ GridLocateLineSpaces

SpecGrids == InitRoundTrip /\ [][NextGrids]_vars

----------------------------------------------------------------------------
(* The extraction specification: one extractor, DXF or DWG, used for one   *)
(* extraction of any drawing, perhaps for a second one, and then asked for *)
(* its elements.  history keeps of the earlier extraction its              *)
(* configuration and the lengths of the lists it left.                     *)

Entity(shape, content, vertices, closed, fails) ==
    [shape |-> shape, content |-> content, vertices |-> vertices, closed |-> closed,
     fails |-> fails]

\* a text, a text with no content, a line, a line that cannot be read, a
\* square outline, a closed outline with a vertex inside its bounding box, a
\* circle and an arc
TextEntity == Entity("text", "A", <<<<0, 0>>>>, FALSE, FALSE)
LineEntity == Entity("line", "", <<<<0, 0>>, <<1, 0>>>>, FALSE, FALSE)
SquareEntity == Entity("lwpolyline", "", <<<<0, 0>>, <<2, 0>>, <<2, 2>>, <<0, 2>>>>, TRUE, FALSE)
CircleEntity == Entity("circle", "", <<<<0, 0>>>>, FALSE, FALSE)

ModelSpaceEntities ==
    {TextEntity,
     Entity("text", "", <<<<0, 0>>>>, FALSE, FALSE),
     LineEntity,
     Entity("line", "", <<<<0, 0>>, <<1, 0>>>>, FALSE, TRUE),
     SquareEntity,
     Entity("lwpolyline", "", <<<<0, 0>>, <<4, 0>>, <<1, 1>>, <<0, 4>>>>, TRUE, FALSE),
     CircleEntity,
     Entity("arc", "", <<<<0, 0>>>>, FALSE, FALSE)}

Drawings == SeqsUpTo(ModelSpaceEntities, MaxEntities)

\* the drawings of a second extraction: an empty one, and two that hold
\* between them an entity of every kind that is kept
LaterDrawings ==
    {<<>>, <<TextEntity, LineEntity>>, <<SquareEntity, CircleEntity>>}

TextOnly ==
    [extract_text |-> TRUE, extract_lines |-> FALSE, extract_rects |-> FALSE,
     extract_circles |-> FALSE]

\* no configuration, text only, and one that only switches text off
ExtractConfigs == {None, Some(TextOnly), Some([extract_text |-> FALSE])}

ExtractFaults == {{}, {"missing"}, {"open"}, {"modelspace"}}

\* AutoCAD with the documents docs open and the first of them active
Acad(docs) ==
    [documents |-> docs, active |-> IF docs = {} THEN 0 ELSE MinOf(docs),
     before |-> 0, opened |-> 0, log |-> <<>>]

\* the documents AutoCAD may turn to when the active one is closed
Picks(a) == IF a.documents = {} THEN {0} ELSE a.documents

\* DXFExtractor.__init__ or DWGExtractor.__init__
InitExtract ==
    /\ NetIdle
    /\ x_axes = <<>>
    /\ y_axes = <<>>
    /\ call = NoCall
    /\ result = NoResult
    /\ history = <<>>
    /\ extractor \in {"dxf", "dwg"}
    /\ elements = NoElements
    /\ acad = IF extractor = "dwg" THEN Acad({1}) ELSE NoAcad

Counts(elems) == [list \in DOMAIN elems |-> Len(elems[list])]

\* history once the extraction in progress has ended
ExtractEarlier ==
    IF call = NoCall THEN history
    ELSE Append(history, [call |-> [op |-> call.op, extract_config |-> call.extract_config],
                          result |-> Counts(elements)])

\* the first extraction
ExtractFromFile ==
    /\ Idle
    /\ \E entities \in Drawings, extract_config \in ExtractConfigs,
          faults \in ExtractFaults, pick \in Picks(acad) :
          LET dxf == DXF_extract_from_file(elements, entities, extract_config, faults)
              dwg == DWG_extract_from_file(elements, acad, entities, extract_config,
                                           faults, pick)
          IN /\ call' = [op |-> "extract_from_file", entities |-> entities,
                         extract_config |-> extract_config, faults |-> faults]
             /\ elements' = IF extractor = "dxf" THEN dxf.elements ELSE dwg.elements
             /\ result' = IF extractor = "dxf" THEN dxf.result ELSE dwg.result
             /\ acad' = IF extractor = "dxf" THEN acad ELSE dwg.acad
    /\ UNCHANGED <<netVars, gridVars, history, extractor>>

\* a second extraction with the same extractor
ExtractAgain ==
    /\ call.op = "extract_from_file"
    /\ history = <<>>
    /\ \E entities \in LaterDrawings, extract_config \in ExtractConfigs,
          faults \in ExtractFaults, pick \in Picks(acad) :
          LET dxf == DXF_extract_from_file(elements, entities, extract_config, faults)
              dwg == DWG_extract_from_file(elements, acad, entities, extract_config,
                                           faults, pick)
          IN /\ call' = [op |-> "extract_from_file", entities |-> entities,
                         extract_config |-> extract_config, faults |-> faults]
             /\ elements' = IF extractor = "dxf" THEN dxf.elements ELSE dwg.elements
             /\ result' = IF extractor = "dxf" THEN dxf.result ELSE dwg.result
             /\ acad' = IF extractor = "dxf" THEN acad ELSE dwg.acad
    /\ history' = ExtractEarlier
    /\ UNCHANGED <<netVars, gridVars, extractor>>

GetAllElements ==
    /\ call.op = "extract_from_file"
    /\ call' = [op |-> "get_all_elements"]
    /\ result' = IF extractor = "dxf" THEN DXF_get_all_elements(elements)
                 ELSE DWG_get_all_elements(elements)
    /\ UNCHANGED <<netVars, gridVars, history, extVars>>

NextExtract == ExtractFromFile \/ ExtractAgain \/ GetAllElements

SpecExtract == InitExtract /\ [][NextExtract]_vars

----------------------------------------------------------------------------
(* The AutoCAD session specification: one DWG extraction, with every       *)
(* combination of the calls that can fail, on an AutoCAD with no document, *)
(* one document or two                                                     *)

SessionFaults ==
    SUBSET {"probe", "open", "activate", "modelspace", "close", "restore"}
        \cup {{"missing"}, {"connect"}}

SessionDrawings == {<<>>, <<LineEntity>>}

\* DWGExtractor.__init__
InitSession ==
    /\ NetIdle
    /\ x_axes = <<>>
    /\ y_axes = <<>>
    /\ call = NoCall
    /\ result = NoResult
    /\ history = <<>>
    /\ extractor = "dwg"
    /\ elements = NoElements
    /\ acad \in {Acad({}), Acad({1}), Acad({1, 2})}

SessionExtractFromFile ==
    /\ Idle
    /\ \E entities \in SessionDrawings, faults \in SessionFaults, pick \in Picks(acad) :
          LET dwg == DWG_extract_from_file(elements, acad, entities, None, faults, pick)
          IN /\ call' = [op |-> "extract_from_file", entities |-> entities,
                         extract_config |-> None, faults |-> faults]
             /\ elements' = dwg.elements
             /\ result' = dwg.result
             /\ acad' = dwg.acad
    /\ UNCHANGED <<netVars, gridVars, history, extractor>>

NextSession == SessionExtractFromFile

SpecSession == InitSession /\ [][NextSession]_vars

\* the axes list a _span or _nearest_axis call was made on
CallAxes == IF call.dir = "x" THEN x_axes ELSE y_axes

Coordinates(as) == {as[i].coordinate : i \in DOMAIN as}

----------------------------------------------------------------------------
\* C1: on a non-empty list sorted ascending, _span returns (prev, next) with
\* prev.coordinate <= value < next.coordinate when both are present, prev
\* absent exactly when value is below the least coordinate, and next absent
\* exactly when value is at or above the greatest.
C1_SpanBrackets ==
    (call.op = "_span" /\ CallAxes # <<>>) =>
        LET cs == Coordinates(CallAxes)
            v == call.coord
        IN /\ (result.prev # None /\ result.next # None) =>
                  (QLe(result.prev[1].coordinate, v) /\ QLt(v, result.next[1].coordinate))
           /\ (result.prev = None) <=> QLt(v, QMinOf(cs))
           /\ (result.next = None) <=> QLe(QMaxOf(cs), v)

\* a span query strictly between two axes of the list: both ends present
C1_Witness ==
    /\ call.op = "_span"
    /\ Len(CallAxes) = 2
    /\ result.prev # None
    /\ result.next # None
    /\ QLt(result.prev[1].coordinate, result.next[1].coordinate)

----------------------------------------------------------------------------
(* What the claims about space detection speak of, stated on the input *)

SpacesCalled == call.op = "_locate_line_spaces"
Returned == SpacesCalled /\ "closed_spaces" \in DOMAIN result
Raised == SpacesCalled /\ "exc" \in DOMAIN result

\* a record whose four coordinates float() accepts
Parses(line) == LineFloatError(line) = ""
\* a record with four finite numeric coordinates
WellFormed(line) ==
    {line.start_x.kind, line.start_y.kind, line.end_x.kind, line.end_y.kind} = {"num"}
\* a record with a non-numeric, missing or null coordinate
Malformed(line) == ~Parses(line)

\* the positions of the well-formed records in the input
WellFormedAt(lines) == {i \in DOMAIN lines : WellFormed(lines[i])}

\* the snapped nodes <<start, end>> of each well-formed record of the input
EndNodes(lines, tol) ==
    [i \in WellFormedAt(lines) |->
        <<_normalize_point(lines[i].start_x.v, lines[i].start_y.v, tol).node,
          _normalize_point(lines[i].end_x.v, lines[i].end_y.v, tol).node>>]

\* the lines linked to those of K by a chain of lines sharing nodes
RECURSIVE Chained(_, _)
Chained(ends, K) ==
    LET more == {j \in DOMAIN ends :
                    \E i \in K : {ends[i][1], ends[i][2]} \cap {ends[j][1], ends[j][2]} # {}}
    IN IF more \subseteq K THEN K ELSE Chained(ends, K \cup more)

ChainComponents(ends) == {Chained(ends, {i}) : i \in DOMAIN ends}

NodesOf(ends, K) == UNION {{ends[i][1], ends[i][2]} : i \in K}

\* the number of line ends of K at node
EndsAt(ends, K, node) ==
    Cardinality({i \in K : ends[i][1] = node}) + Cardinality({i \in K : ends[i][2] = node})

SimpleCycle(ends, K, min_lines) ==
    /\ Cardinality(K) >= min_lines
    /\ Cardinality(NodesOf(ends, K)) >= min_lines
    /\ \A node \in NodesOf(ends, K) : EndsAt(ends, K, node) = 2

OpenIndexes == {result.open_lines[j].line_index : j \in DOMAIN result.open_lines}

\* C2: a connected component of well-formed lines is reported as one closed
\* space exactly when it has at least min_lines lines, at least min_lines
\* distinct snapped nodes and every node of degree 2; the lines of every other
\* component are reported one by one in open_lines, and only those.
C2_ClosedIffSimpleCycle ==
    Returned =>
        LET ends == EndNodes(call.lines, call.tolerance)
            comps == ChainComponents(ends)
            cycles == {K \in comps : SimpleCycle(ends, K, call.min_lines)}
            others == UNION (comps \ cycles)
        IN /\ Len(result.closed_spaces) = Cardinality(cycles)
           /\ \A K \in cycles :
                 \E j \in DOMAIN result.closed_spaces :
                    /\ result.closed_spaces[j].line_count = Cardinality(K)
                    /\ result.closed_spaces[j].node_count = Cardinality(NodesOf(ends, K))
           /\ OpenIndexes = {i - 1 : i \in others}
           /\ Len(result.open_lines) = Cardinality(others)

\* a pass that reports a closed space and an open line at once
C2_Witness ==
    /\ Returned
    /\ Len(result.closed_spaces) = 1
    /\ Len(result.open_lines) = 1
    /\ result.closed_spaces[1].line_count = 2

\* C3: a pass over exactly one well-formed line, with min_lines >= 1 and a
\* positive tolerance, reports that line in open_lines and no closed space.
C3_SingleLineIsOpen ==
    (/\ SpacesCalled
     /\ Len(call.lines) = 1
     /\ WellFormed(call.lines[1])
     /\ call.min_lines >= 1
     /\ QLt(F(0), call.tolerance)) =>
        /\ Returned
        /\ result.closed_spaces = <<>>
        /\ Len(result.open_lines) = 1
        /\ result.open_lines[1].line_index = 0

\* the endpoints of the well-formed records of the call
CallEndpoints ==
    UNION {{<<call.lines[i].start_x.v, call.lines[i].start_y.v>>,
            <<call.lines[i].end_x.v, call.lines[i].end_y.v>>} : i \in WellFormedAt(call.lines)}

Within(p, q, tol) ==
    /\ QLe(QAbs(QSub(p[1], q[1])), tol)
    /\ QLe(QAbs(QSub(p[2], q[2])), tol)

NodeOf(p, tol) == _normalize_point(p[1], p[2], tol).node

\* C4 as claimed: any two endpoints within point_tolerance of each other in
\* x and in y are normalized to the same node.
C4_NearPointsMerge ==
    (SpacesCalled /\ QLt(F(0), call.tolerance)) =>
        \A p, q \in CallEndpoints :
            Within(p, q, call.tolerance) => NodeOf(p, call.tolerance) = NodeOf(q, call.tolerance)

\* C4 as amended: two endpoints normalized to the same node are within
\* point_tolerance of each other in x and in y (the converse does not hold:
\* a node is a cell of the rounding grid, and near points on either side of
\* a cell boundary stay apart).
C4_MergedPointsAreNear ==
    (SpacesCalled /\ QLt(F(0), call.tolerance)) =>
        \A p, q \in CallEndpoints :
            NodeOf(p, call.tolerance) = NodeOf(q, call.tolerance) => Within(p, q, call.tolerance)

\* two different endpoints of one pass merged into one node
C4_Witness ==
    /\ Returned
    /\ \E p, q \in CallEndpoints :
          p # q /\ NodeOf(p, call.tolerance) = NodeOf(q, call.tolerance)

\* C5: a pass called with point_tolerance <= 0 raises the configuration
\* error whatever the line list is, and returns no detection result.
C5_BadToleranceRaises ==
    (SpacesCalled /\ QLe(call.tolerance, F(0))) =>
        (Raised /\ result.exc = "ValueError")

\* the input with its malformed records taken out
CleanLines == SelectSeq(call.lines, Parses)

\* the position in the input of the k-th record that parses (from 0, as line_index)
RECURSIVE RawIndexOf(_, _, _)
RawIndexOf(lines, i, k) ==
    IF Parses(lines[i])
    THEN IF k = 0 THEN i - 1 ELSE RawIndexOf(lines, i + 1, k - 1)
    ELSE RawIndexOf(lines, i + 1, k)

\* C8: malformed records never abort the pass and change nothing else: the
\* pass raises only if it raises without them, and otherwise closed_spaces
\* and the open_lines entries are those of the pass over the input without
\* them, each open line at its position in the full input.
C8_MalformedSkipped ==
    SpacesCalled =>
        LET clean == _locate_line_spaces(x_axes, y_axes, CleanLines,
                                         call.min_lines, call.tolerance)
        IN IF "exc" \in DOMAIN clean THEN result = clean
           ELSE /\ Returned
                /\ result.closed_spaces = clean.closed_spaces
                /\ Len(result.open_lines) = Len(clean.open_lines)
                /\ \A j \in DOMAIN clean.open_lines :
                      result.open_lines[j] =
                          [clean.open_lines[j] EXCEPT
                              !.line_index = RawIndexOf(call.lines, 1, @)]

\* a pass over a malformed record followed by well-formed lines, which it reports
C8_Witness ==
    /\ Returned
    /\ Len(call.lines) >= 2
    /\ Malformed(call.lines[1])
    /\ Len(result.closed_spaces) + Len(result.open_lines) > 0

----------------------------------------------------------------------------
(* What the claims about clustering speak of *)

ClusterCalled == call.op = "load_from_dxf"
ClusterReturned == ClusterCalled /\ result.exc = ""

\* C6: clustering configured with tolerance <= 0 raises and leaves no axes,
\* whatever the lines are.
C6_BadToleranceRaises ==
    (ClusterCalled /\ QLe(tolerance, F(0))) => (result.exc # "" /\ axes = <<>>)

\* a line or text record with a non-numeric, null or missing coordinate
MalformedSeg(line) == LineFloatError(line) # ""
MalformedText(text) == TextFloatError(text) # ""

\* C7: a clustering and labeling pass over records some of which have
\* malformed coordinates raises nothing on their account and yields the axes
\* and labels of the pass over the same input without those records.
C7_MalformedSkipped ==
    ClusterCalled =>
        LET clean == _analyze_structure(
                        SelectSeq(raw_lines, LAMBDA l : ~MalformedSeg(l)),
                        SelectSeq(raw_texts, LAMBDA t : ~MalformedText(t)),
                        tolerance, min_axis_length, search_radius, call.layer_keywords)
        IN /\ result.exc = clean.exc
           /\ clean.exc = "" => axes = clean.axes

\* the buckets of the pass, and the segments put in them
CallGroups == Grouped(Candidates(raw_lines, call.layer_keywords), 1, tolerance, NoGroups)
Bucketed(groups) == UNION {{groups[j].lines[k] : k \in DOMAIN groups[j].lines} : j \in DOMAIN groups}
BucketedCount(groups) == QSum([j \in DOMAIN groups |-> F(Len(groups[j].lines))])[1]

\* the candidate records of the pass that parse, as the segments they give
ParsedCandidates == SelectSeq(Candidates(raw_lines, call.layer_keywords), Parses)
SegOf(line) == [start_x |-> line.start_x.v, start_y |-> line.start_y.v,
                end_x |-> line.end_x.v, end_y |-> line.end_y.v]
NearX(line) == QLt(QAbs(QSub(line.start_x.v, line.end_x.v)), F(1))
NearY(line) == QLt(QAbs(QSub(line.start_y.v, line.end_y.v)), F(1))

\* the axes of the pass over the input without its lines that are neither
AxesWithoutDiagonals ==
    _analyze_structure(SelectSeq(raw_lines, LAMBDA l : MalformedSeg(l) \/ NearX(l) \/ NearY(l)),
                       raw_texts, tolerance, min_axis_length, search_radius,
                       call.layer_keywords).axes

\* C9 as claimed: every candidate line with |x1-x2| < 1 is put in a vertical
\* bucket, every candidate line with |y1-y2| < 1 in a horizontal bucket, and
\* a line with both differences >= 1 in no bucket and in no output axis.
C9_Orientation ==
    ClusterCalled =>
        LET g == CallGroups
            vertical == Bucketed(g.vertical_groups)
            horizontal == Bucketed(g.horizontal_groups)
            cands == ParsedCandidates
        IN g.exc = "" =>
            /\ \A i \in DOMAIN cands :
                  LET line == cands[i] IN
                  /\ NearX(line) => SegOf(line) \in vertical
                  /\ NearY(line) => SegOf(line) \in horizontal
                  /\ (~NearX(line) /\ ~NearY(line)) =>
                        (SegOf(line) \notin vertical /\ SegOf(line) \notin horizontal)
            /\ result.exc = "" => axes = AxesWithoutDiagonals

\* C9 as amended: in a pass whose grouping completes, every candidate line
\* with |x1-x2| < 1 is put in a vertical bucket only, every candidate line
\* with |x1-x2| >= 1 and |y1-y2| < 1 in a horizontal bucket only, and a line
\* with both differences >= 1 in no bucket and in no output axis.
C9_OrientationVerticalFirst ==
    ClusterCalled =>
        LET g == CallGroups
            vertical == Bucketed(g.vertical_groups)
            horizontal == Bucketed(g.horizontal_groups)
            cands == ParsedCandidates
        IN g.exc = "" =>
            /\ \A i \in DOMAIN cands :
                  LET line == cands[i] IN
                  /\ NearX(line) =>
                        (SegOf(line) \in vertical /\ SegOf(line) \notin horizontal)
                  /\ (~NearX(line) /\ NearY(line)) =>
                        (SegOf(line) \in horizontal /\ SegOf(line) \notin vertical)
                  /\ (~NearX(line) /\ ~NearY(line)) =>
                        (SegOf(line) \notin vertical /\ SegOf(line) \notin horizontal)
            /\ BucketedCount(g.vertical_groups) = Len(SelectSeq(cands, NearX))
            /\ BucketedCount(g.horizontal_groups)
                  = Len(SelectSeq(cands, LAMBDA l : ~NearX(l) /\ NearY(l)))
            /\ result.exc = "" => axes = AxesWithoutDiagonals

\* a pass over a vertical, a horizontal and no other line that yields two axes
C9_Witness ==
    /\ ClusterReturned
    /\ Len(ParsedCandidates) = 2
    /\ NearX(ParsedCandidates[1]) /\ ~NearY(ParsedCandidates[1])
    /\ ~NearX(ParsedCandidates[2]) /\ NearY(ParsedCandidates[2])
    /\ Len(axes) = 2
    /\ axes[1].is_vertical /\ ~axes[2].is_vertical

\* the span of a bucket: the extent of its segments along the axis
BucketSpan(segs, k1, k2) == QSub(QMaxOf(EndValues(segs, k1, k2)), QMinOf(EndValues(segs, k1, k2)))

\* C10: no output axis is shorter (start_point to end_point) than
\* min_axis_length, and a bucket whose span equals min_axis_length is kept.
C10_NoShortAxis ==
    ClusterCalled =>
        /\ \A i \in DOMAIN axes :
              QLe(QMul(min_axis_length, min_axis_length), LengthSq(axes[i]))
        /\ result.exc = "" =>
              LET g == CallGroups IN
              /\ \A j \in DOMAIN g.vertical_groups :
                    LET segs == g.vertical_groups[j].lines IN
                    BucketSpan(segs, "start_y", "end_y") = min_axis_length =>
                        \E i \in DOMAIN axes :
                            /\ axes[i].is_vertical
                            /\ axes[i].coordinate = Average(segs, "start_x", "end_x")
                            /\ LengthSq(axes[i]) = QMul(min_axis_length, min_axis_length)
              /\ \A j \in DOMAIN g.horizontal_groups :
                    LET segs == g.horizontal_groups[j].lines IN
                    BucketSpan(segs, "start_x", "end_x") = min_axis_length =>
                        \E i \in DOMAIN axes :
                            /\ ~axes[i].is_vertical
                            /\ axes[i].coordinate = Average(segs, "start_y", "end_y")
                            /\ LengthSq(axes[i]) = QMul(min_axis_length, min_axis_length)

\* a pass that keeps an axis exactly min_axis_length long and drops a shorter bucket
C10_Witness ==
    /\ ClusterReturned
    /\ Len(axes) = 1
    /\ LengthSq(axes[1]) = QMul(min_axis_length, min_axis_length)
    /\ Len(CallGroups.vertical_groups) + Len(CallGroups.horizontal_groups) = 2

----------------------------------------------------------------------------
(* One axis per surviving bucket, stated on the candidate lines themselves *)

\* the bucket key of a line by the mean of the coordinates named k1, k2
KeyBy(line, k1, k2) ==
    LET avg == QDiv(QAdd(line[k1].v, line[k2].v), F(2))
        t == QDiv(avg, tolerance)
    IN QMul(F(RoundHalfEven(t[1], t[2])), tolerance)

\* the candidate lines of one orientation, and those of them with one key
VerticalLines == SelectSeq(ParsedCandidates, NearX)
HorizontalLines == SelectSeq(ParsedCandidates, LAMBDA l : ~NearX(l) /\ NearY(l))
WithKey(lines, k1, k2, key) == SelectSeq(lines, LAMBDA l : KeyBy(l, k1, k2) = key)
KeysOf(lines, k1, k2) == {KeyBy(lines[i], k1, k2) : i \in DOMAIN lines}

\* all endpoint values of the coordinate pair (k1, k2) over a list of lines
EndpointValues(lines, k1, k2) ==
    [n \in 1..(2 * Len(lines)) |->
        IF n % 2 = 1 THEN lines[(n + 1) \div 2][k1].v ELSE lines[n \div 2][k2].v]

MeanOf(values) == QDiv(QSum(values), F(Len(values)))
LeastOf(values) == QMinOf({values[n] : n \in DOMAIN values})
GreatestOf(values) == QMaxOf({values[n] : n \in DOMAIN values})

\* the axis the claim describes for the lines of a bucket
ExpectedVertical(lines) ==
    LET xs == EndpointValues(lines, "start_x", "end_x")
        ys == EndpointValues(lines, "start_y", "end_y")
    IN [label |-> <<"?">>,
        start_point |-> <<MeanOf(xs), LeastOf(ys)>>,
        end_point |-> <<MeanOf(xs), GreatestOf(ys)>>,
        is_vertical |-> TRUE,
        coordinate |-> MeanOf(xs)]

ExpectedHorizontal(lines) ==
    LET xs == EndpointValues(lines, "start_x", "end_x")
        ys == EndpointValues(lines, "start_y", "end_y")
    IN [label |-> <<"?">>,
        start_point |-> <<LeastOf(xs), MeanOf(ys)>>,
        end_point |-> <<GreatestOf(xs), MeanOf(ys)>>,
        is_vertical |-> FALSE,
        coordinate |-> MeanOf(ys)]

\* the axes the claim describes: one per bucket at least min_axis_length long
Survives(axis) == QLe(QMul(min_axis_length, min_axis_length), LengthSq(axis))
ExpectedAxes ==
    {axis \in {ExpectedVertical(WithKey(VerticalLines, "start_x", "end_x", key)) :
                  key \in KeysOf(VerticalLines, "start_x", "end_x")}
              \cup {ExpectedHorizontal(WithKey(HorizontalLines, "start_y", "end_y", key)) :
                       key \in KeysOf(HorizontalLines, "start_y", "end_y")} :
        Survives(axis)}

\* C11: a clustering pass that returns leaves exactly one axis per surviving
\* bucket (lines of one orientation whose key round(avg / tolerance) *
\* tolerance is the same): its coordinate is the mean of the defining
\* coordinate over all endpoints of the bucket, its start and end points the
\* least and greatest other coordinate, is_vertical the orientation of the
\* bucket, and its label "?" as long as no text is matched to it.
C11_OneAxisPerBucket ==
    ClusterReturned =>
        LET expected == ExpectedAxes
            unlabelled == {[axes[i] EXCEPT !.label = <<"?">>] : i \in DOMAIN axes}
        IN /\ Len(axes) = Cardinality(expected)
           /\ unlabelled = expected
           /\ raw_texts = <<>> => \A i \in DOMAIN axes : axes[i].label = <<"?">>

\* two segments with different x merged into one vertical axis at their mean
C11_Witness ==
    /\ ClusterReturned
    /\ QLt(F(0), tolerance)
    /\ Len(VerticalLines) = 2
    /\ Len(axes) = 1
    /\ axes[1].is_vertical
    /\ axes[1].label = <<"?">>
    /\ \A i \in 1..2 : axes[1].coordinate # VerticalLines[i].start_x.v
    /\ \A i \in 1..2 : axes[1].coordinate # VerticalLines[i].end_x.v

----------------------------------------------------------------------------
(* Labels, stated on the text records and the axis end points *)

\* the text records labeling considers: readable coordinates and a content
\* of at most 8 characters once stripped
CandidateTexts ==
    {t \in DOMAIN raw_texts :
        /\ raw_texts[t].x.kind = "num"
        /\ raw_texts[t].y.kind = "num"
        /\ raw_texts[t].content.kind = "str"
        /\ Len(Strip(raw_texts[t].content.v)) <= 8}

\* the squared distance of a text to the nearer end point of an axis
NearerEndSq(axis, text) ==
    LET d1 == DistSq(text.x.v, text.y.v, axis.start_point)
        d2 == DistSq(text.x.v, text.y.v, axis.end_point)
    IN IF QLe(d1, d2) THEN d1 ELSE d2

\* the candidate texts strictly nearer to an end of the axis than search_radius
WithinRadius(axis) ==
    {t \in CandidateTexts :
        /\ QLt(F(0), search_radius)
        /\ QLt(NearerEndSq(axis, raw_texts[t]), QMul(search_radius, search_radius))}

\* C12: after a pass that returns, the label of each axis is the stripped
\* content of a candidate text within search_radius that no other such text
\* is nearer than, and it is the placeholder "?" exactly when no candidate
\* text lies within search_radius.
C12_NearestTextLabels ==
    ClusterReturned =>
        \A i \in DOMAIN axes :
            LET near == WithinRadius(axes[i]) IN
            /\ (axes[i].label = <<"?">>) <=> (near = {})
            /\ near # {} =>
                  \E t \in near :
                     /\ axes[i].label = Strip(raw_texts[t].content.v)
                     /\ \A u \in near : QLe(NearerEndSq(axes[i], raw_texts[t]),
                                            NearerEndSq(axes[i], raw_texts[u]))

\* the text records with readable coordinates and a stripped content longer
\* than 8 characters
LongTexts ==
    {t \in DOMAIN raw_texts :
        /\ raw_texts[t].x.kind = "num"
        /\ raw_texts[t].y.kind = "num"
        /\ raw_texts[t].content.kind = "str"
        /\ Len(Strip(raw_texts[t].content.v)) > 8}

\* a long text lies nearer to an end of the axis than the short text t
LongTextNearerThan(axis, t) ==
    \E l \in LongTexts :
        QLt(NearerEndSq(axis, raw_texts[l]), NearerEndSq(axis, raw_texts[t]))

\* the pass over the same records without the long texts
WithoutLongTexts ==
    _analyze_structure(raw_lines,
                       SelectSeq(raw_texts, LAMBDA text :
                           ~(text.content.kind = "str" /\ Len(Strip(text.content.v)) > 8)),
                       tolerance, min_axis_length, search_radius, call.layer_keywords)

\* C13: no axis is labelled with a text whose stripped content is longer than
\* 8 characters: the axes of a pass that returns are those of the pass without
\* the long texts, and an axis with one short text within search_radius and a
\* long text nearer than it is labelled with the short text's content.
C13_LongTextNeverLabels ==
    ClusterReturned =>
        /\ \A i \in DOMAIN axes : Len(axes[i].label) <= 8
        /\ \A i \in DOMAIN axes : \A l \in LongTexts :
              axes[i].label # Strip(raw_texts[l].content.v)
        /\ WithoutLongTexts.exc = ""
        /\ axes = WithoutLongTexts.axes
        /\ \A i \in DOMAIN axes : \A t \in DOMAIN raw_texts :
              (/\ WithinRadius(axes[i]) = {t}
               /\ Strip(raw_texts[t].content.v) # <<>>
               /\ LongTextNearerThan(axes[i], t)) =>
                  axes[i].label = Strip(raw_texts[t].content.v)

\* an axis labelled with a short text although a long text is nearer to it
C13_Witness ==
    /\ ClusterReturned
    /\ \E i \in DOMAIN axes : \E t \in WithinRadius(axes[i]) :
          /\ LongTextNearerThan(axes[i], t)
          /\ axes[i].label = Strip(raw_texts[t].content.v)
          /\ axes[i].label # <<"?">>

----------------------------------------------------------------------------
(* The locator's answers, stated on the sorted axis lists *)

Distance(axis, value) == QAbs(QSub(axis.coordinate, value))

\* C14: _nearest_axis returns None on an empty list, and otherwise an axis of
\* the list that no other axis is nearer to the value than; of several
\* equally near axes it returns one with the lowest coordinate.
C14_NearestAxis ==
    call.op = "_nearest_axis" =>
        IF CallAxes = <<>> THEN result = None
        ELSE /\ result # None
             /\ \E i \in DOMAIN CallAxes : result[1] = CallAxes[i]
             /\ \A j \in DOMAIN CallAxes :
                   /\ QLe(Distance(result[1], call.coord), Distance(CallAxes[j], call.coord))
                   /\ Distance(CallAxes[j], call.coord) = Distance(result[1], call.coord) =>
                         QLe(result[1].coordinate, CallAxes[j].coordinate)

\* a value midway between two axes: the lower one is returned
C14_Witness ==
    /\ call.op = "_nearest_axis"
    /\ Len(CallAxes) = 2
    /\ QLt(CallAxes[1].coordinate, CallAxes[2].coordinate)
    /\ Distance(CallAxes[1], call.coord) = Distance(CallAxes[2], call.coord)
    /\ result = Some(CallAxes[1])

\* the label of the first axis of a sorted list that none is nearer than
NearestLabel(as, value) ==
    IF as = <<>> THEN None
    ELSE Some(as[MinOf({i \in DOMAIN as :
                           \A j \in DOMAIN as : QLe(Distance(as[i], value), Distance(as[j], value))})].label)

\* the label of the last axis of a sorted list at or below the value
SpanStartLabel(as, value) ==
    LET below == {i \in DOMAIN as : QLe(as[i].coordinate, value)}
    IN IF below = {} THEN None ELSE Some(as[MaxOf(below)].label)

\* the label of the first axis of a sorted list above the value
SpanEndLabel(as, value) ==
    LET above == {i \in DOMAIN as : QLt(value, as[i].coordinate)}
    IN IF above = {} THEN None ELSE Some(as[MinOf(above)].label)

ScenarioCAxes == <<[label |-> <<"A">>, coordinate |-> F(0)],
                   [label |-> <<"B">>, coordinate |-> F(10)]>>

\* C15: locate_point(x, y) returns exactly the six fields, each the label of
\* its axis or None when there is none; the x fields are determined by x and
\* x_axes, the y fields by y and y_axes.  With X axes A@0 and B@10, x = 5
\* gives the span A..B and x = -1 the span None..A.
C15_LocatePointFields ==
    call.op = "locate_point" =>
        /\ DOMAIN result = {"nearest_x_axis", "nearest_y_axis", "x_span_start",
                            "x_span_end", "y_span_start", "y_span_end"}
        /\ result.nearest_x_axis = NearestLabel(x_axes, call.x)
        /\ result.x_span_start = SpanStartLabel(x_axes, call.x)
        /\ result.x_span_end = SpanEndLabel(x_axes, call.x)
        /\ result.nearest_y_axis = NearestLabel(y_axes, call.y)
        /\ result.y_span_start = SpanStartLabel(y_axes, call.y)
        /\ result.y_span_end = SpanEndLabel(y_axes, call.y)
        /\ (x_axes = ScenarioCAxes /\ call.x = F(5)) =>
              (result.x_span_start = Some(<<"A">>) /\ result.x_span_end = Some(<<"B">>))
        /\ (x_axes = ScenarioCAxes /\ call.x = F(-1)) =>
              (result.x_span_start = None /\ result.x_span_end = Some(<<"A">>))

\* scenario C at x = 5, on a grid whose y axes differ from its x axes
C15_Witness ==
    /\ call.op = "locate_point"
    /\ x_axes = ScenarioCAxes
    /\ y_axes # x_axes
    /\ call.x = F(5)
    /\ result.x_span_start = Some(<<"A">>)
    /\ result.x_span_end = Some(<<"B">>)
    /\ result.nearest_x_axis = Some(<<"A">>)

\* a field float() coerces to a number
Numeric(f) == f.kind = "num"

\* C17: locate_entity raises the input-shape error (ValueError) whenever x or
\* y is missing from the record or is not float-coercible, and in every other
\* case returns exactly locate_point(float(x), float(y)).
C17_LocateEntityShape ==
    call.op = "locate_entity" =>
        IF Numeric(call.entity.x) /\ Numeric(call.entity.y)
        THEN result = locate_point(x_axes, y_axes, call.entity.x.v, call.entity.y.v)
        ELSE result = [exc |-> "ValueError"]

\* a record with a numeric x and a null y, rejected on a grid that has axes
C17_Witness ==
    /\ call.op = "locate_entity"
    /\ x_axes # <<>>
    /\ Numeric(call.entity.x)
    /\ call.entity.y.kind = "none"
    /\ result = [exc |-> "ValueError"]

----------------------------------------------------------------------------
\* C16: no call on a built AxisGrid changes x_axes or y_axes (contents and
\* order), and a locate_point call returns the record every earlier
\* locate_point call with the same (x, y) returned, whatever calls were made
\* in between.
C16_GridImmutable ==
    /\ [][x_axes' = x_axes /\ y_axes' = y_axes]_vars
    /\ [](\A i \in DOMAIN history :
             (/\ call.op = "locate_point"
              /\ history[i].call.op = "locate_point"
              /\ history[i].call.x = call.x
              /\ history[i].call.y = call.y) => history[i].result = result)

\* a locate_point repeated after a space detection that found a closed space
C16_Witness ==
    /\ Len(history) = 2
    /\ history[1].call.op = "locate_point"
    /\ history[2].call.op = "_locate_line_spaces"
    /\ "closed_spaces" \in DOMAIN history[2].result
    /\ Len(history[2].result.closed_spaces) = 1
    /\ call = history[1].call
    /\ result = history[1].result
    /\ result.x_span_start # None

----------------------------------------------------------------------------
(* The closed-space entry of a simple cycle *)

RECURSIVE SumOfSet(_, _)
SumOfSet(f, S) ==
    IF S = {} THEN F(0)
    ELSE LET x == CHOOSE y \in S : TRUE IN QAdd(f[x], SumOfSet(f, S \ {x}))

\* the raw coordinates of the first endpoint of the input, in reading order
\* (line by line, start before end), that snaps to node
FirstEndpointAt(lines, ends, node) ==
    LET i == MinOf({j \in DOMAIN ends : node \in {ends[j][1], ends[j][2]}})
    IN IF ends[i][1] = node THEN <<lines[i].start_x.v, lines[i].start_y.v>>
       ELSE <<lines[i].end_x.v, lines[i].end_y.v>>

\* what the entry of the cycle K says when every node counts with coords[node]
CycleEntry(ends, K, coords) ==
    LET nodes == NodesOf(ends, K)
        n == F(Cardinality(nodes))
    IN [line_count |-> Cardinality(K),
        node_count |-> Cardinality(nodes),
        center_x |-> Fmt4(QDiv(SumOfSet([node \in nodes |-> coords[node][1]], nodes), n)),
        center_y |-> Fmt4(QDiv(SumOfSet([node \in nodes |-> coords[node][2]], nodes), n))]

\* the four fields of a closed_spaces entry that describe the cycle itself
CycleFields(entry) ==
    [line_count |-> entry.line_count, node_count |-> entry.node_count,
     center_x |-> entry.center_x, center_y |-> entry.center_y]

\* every simple cycle of the input has its own entry, as described by coords,
\* and none of its lines is reported open
CyclesReportedWith(ends, cycles, coords) ==
    \A K \in cycles :
        /\ Cardinality(K) = Cardinality(NodesOf(ends, K))
        /\ Cardinality({j \in DOMAIN result.closed_spaces :
                           CycleFields(result.closed_spaces[j]) = CycleEntry(ends, K, coords)})
             = Cardinality({K2 \in cycles :
                               CycleEntry(ends, K2, coords) = CycleEntry(ends, K, coords)})
        /\ \A i \in K : (i - 1) \notin OpenIndexes

ScenarioACalled ==
    /\ SpacesCalled
    /\ call.lines = ScenarioA.lines
    /\ call.min_lines = ScenarioA.min_lines
    /\ call.tolerance = ScenarioA.tolerance

ScenarioAResult ==
    /\ Returned
    /\ result.open_lines = <<>>
    /\ Len(result.closed_spaces) = 1
    /\ CycleFields(result.closed_spaces[1]) =
          [line_count |-> 4, node_count |-> 4, center_x |-> 50000, center_y |-> 50000]

\* C18 as claimed: the n lines of a simple cycle over n snapped nodes, with
\* n >= min_lines, yield one closed_spaces entry with line_count = n,
\* node_count = n and as centre the mean of the snapped node coordinates, and
\* none of them is in open_lines; the square gives 4, 4 and (5, 5).
C18_CycleCentreOfNodes ==
    Returned =>
        LET ends == EndNodes(call.lines, call.tolerance)
            cycles == {K \in ChainComponents(ends) : SimpleCycle(ends, K, call.min_lines)}
            nodes == UNION {NodesOf(ends, K) : K \in cycles}
        IN /\ CyclesReportedWith(ends, cycles, [node \in nodes |-> node])
           /\ ScenarioACalled => ScenarioAResult

\* C18 as amended: the same, the centre being the mean over the nodes of the
\* raw coordinates of the first endpoint of the input snapped to each node
\* (which are the node's own coordinates when the endpoints lie on the
\* tolerance grid, as the corners of the square do).
C18_CycleCentreOfFirstEndpoints ==
    Returned =>
        LET ends == EndNodes(call.lines, call.tolerance)
            cycles == {K \in ChainComponents(ends) : SimpleCycle(ends, K, call.min_lines)}
            nodes == UNION {NodesOf(ends, K) : K \in cycles}
        IN /\ CyclesReportedWith(ends, cycles,
                                 [node \in nodes |-> FirstEndpointAt(call.lines, ends, node)])
           /\ ScenarioACalled => ScenarioAResult

\* the square, reported as one closed space of 4 lines and 4 nodes around (5, 5)
C18_Witness ==
    /\ ScenarioACalled
    /\ ScenarioAResult

----------------------------------------------------------------------------
(* Components are the maximal connected sets of lines *)

SharesNode(ends, i, j) == {ends[i][1], ends[i][2]} \cap {ends[j][1], ends[j][2]} # {}

ReportedOpen(i) == (i - 1) \in OpenIndexes

\* C19: the pass groups the well-formed lines into the maximal sets linked by
\* chains of lines sharing snapped nodes: two lines that share a node are
\* both reported open or both inside a closed space, no line is reported
\* twice, and the closed spaces are, size by size, the chain components none
\* of whose lines is open.
C19_MaximalComponents ==
    Returned =>
        LET ends == EndNodes(call.lines, call.tolerance)
            comps == ChainComponents(ends)
            closed == {K \in comps : \A i \in K : ~ReportedOpen(i)}
        IN /\ \A i, j \in DOMAIN ends :
                 SharesNode(ends, i, j) => (ReportedOpen(i) <=> ReportedOpen(j))
           /\ \A K \in comps : \A i, j \in K : ReportedOpen(i) <=> ReportedOpen(j)
           /\ OpenIndexes \subseteq {i - 1 : i \in DOMAIN ends}
           /\ Len(result.open_lines) = Cardinality(OpenIndexes)
           /\ Len(result.closed_spaces) = Cardinality(closed)
           /\ \A n \in 1..Len(call.lines) :
                 Cardinality({j \in DOMAIN result.closed_spaces :
                                 result.closed_spaces[j].line_count = n})
                   = Cardinality({K \in closed : Cardinality(K) = n})

\* three open lines in one component, the first and the last of which share
\* no node and are linked through the second
C19_Witness ==
    /\ Returned
    /\ Len(call.lines) = 3
    /\ WellFormedAt(call.lines) = 1..3
    /\ Len(result.open_lines) = 3
    /\ LET ends == EndNodes(call.lines, call.tolerance)
       IN /\ ~SharesNode(ends, 1, 3)
          /\ SharesNode(ends, 1, 2)
          /\ SharesNode(ends, 2, 3)

----------------------------------------------------------------------------
(* Snapshot round trip *)

\* a query made on a grid rebuilt from the snapshot of the loaded network
Rebuilt ==
    /\ Len(history) = 3
    /\ history[2].call.op = "to_dict"
    /\ history[3].call.op = "AxisGrid"

\* the sorted list of the network the query corresponds to
OriginalAxes == IF call.dir = "x" THEN GridNetwork_x_axes(axes) ELSE GridNetwork_y_axes(axes)

\* both absent, or both present with the same label and coordinate
SameAxis(a, b) ==
    IF a = None \/ b = None THEN a = b
    ELSE a[1].label = b[1].label /\ a[1].coordinate = b[1].coordinate

\* C20: on a grid rebuilt from the to_dict snapshot of a network, _span and
\* _nearest_axis return, for every probe, axes with the label and coordinate
\* of those the same query returns on the network's own sorted x_axes /
\* y_axes, and the lists of the rebuilt grid are again the snapshot.
C20_SnapshotRoundTrip ==
    /\ call.op = "AxisGrid" =>
          [x_axes |-> x_axes, y_axes |-> y_axes] = call.grid_source
    /\ (Rebuilt /\ call.op = "_span") =>
          /\ SameAxis(result.prev, _span(OriginalAxes, call.coord).prev)
          /\ SameAxis(result.next, _span(OriginalAxes, call.coord).next)
          /\ [x_axes |-> x_axes, y_axes |-> y_axes] = history[2].result
    /\ (Rebuilt /\ call.op = "_nearest_axis") =>
          /\ SameAxis(result, _nearest_axis(OriginalAxes, call.coord))
          /\ [x_axes |-> x_axes, y_axes |-> y_axes] = history[2].result

\* a span between two axes found on the grid rebuilt from a network whose
\* axes list is not in ascending order
C20_Witness ==
    /\ Rebuilt
    /\ call.op = "_span"
    /\ call.dir = "x"
    /\ Len(axes) = 2
    /\ axes[1].is_vertical /\ axes[2].is_vertical
    /\ QLt(axes[2].coordinate, axes[1].coordinate)
    /\ result.prev # None /\ result.next # None
    /\ result.prev[1].coordinate = axes[2].coordinate
    /\ result.next[1].coordinate = axes[1].coordinate

----------------------------------------------------------------------------
(* Order and orientation of the lists of a grid *)

AscendingAxes(as) ==
    \A i \in 1..(Len(as) - 1) : QLe(as[i].coordinate, as[i + 1].coordinate)
OnlyVertical(as) == \A i \in DOMAIN as : as[i].is_vertical
OnlyHorizontal(as) == \A i \in DOMAIN as : ~as[i].is_vertical
Occurrences(as, a) == Cardinality({i \in DOMAIN as : as[i] = a})
SameAxes(as, bs) ==
    /\ Len(as) = Len(bs)
    /\ \A i \in DOMAIN as : Occurrences(as, as[i]) = Occurrences(bs, as[i])

\* the lists of the network and of the AxisGrid are in ascending order, and
\* those of the network hold only axes of their own orientation
OrderedGrids ==
    /\ AscendingAxes(GridNetwork_x_axes(axes)) /\ OnlyVertical(GridNetwork_x_axes(axes))
    /\ AscendingAxes(GridNetwork_y_axes(axes)) /\ OnlyHorizontal(GridNetwork_y_axes(axes))
    /\ AscendingAxes(x_axes)
    /\ AscendingAxes(y_axes)

\* C21 as stated: in every grid, of a network or built from any snapshot,
\* x_axes and y_axes are in ascending coordinate order, x_axes holds only
\* vertical axes and y_axes only horizontal axes.
C21_SortedAndOriented ==
    /\ OrderedGrids
    /\ OnlyVertical(x_axes)
    /\ OnlyHorizontal(y_axes)

\* C21 amended: the lists are in ascending order in every grid and those of
\* a network hold only axes of their own orientation; an AxisGrid holds
\* under x_axes exactly the axes its snapshot lists under x_axes, and
\* under y_axes those listed under y_axes, whatever is_vertical they carry,
\* so its lists are oriented exactly when the snapshot's are.
C21_SortedAndAsListed ==
    /\ OrderedGrids
    /\ call.op = "AxisGrid" =>
          /\ SameAxes(x_axes, call.grid_source.x_axes)
          /\ SameAxes(y_axes, call.grid_source.y_axes)

\* an AxisGrid built from a snapshot that lists two vertical axes in
\* descending order
C21_Witness ==
    /\ call.op = "AxisGrid"
    /\ Len(call.grid_source.x_axes) = 2
    /\ OnlyVertical(call.grid_source.x_axes)
    /\ QLt(call.grid_source.x_axes[2].coordinate, call.grid_source.x_axes[1].coordinate)
    /\ x_axes = <<call.grid_source.x_axes[2], call.grid_source.x_axes[1]>>

----------------------------------------------------------------------------
(* Empty input *)

\* the grid in use was built from the snapshot of a network loaded with no
\* line at all
OfEmptyLoad ==
    /\ Rebuilt
    /\ history[1].call.op = "load_from_dxf"
    /\ raw_lines = <<>>

AllNull(fields) ==
    /\ fields.nearest_x_axis = None /\ fields.nearest_y_axis = None
    /\ fields.x_span_start = None /\ fields.x_span_end = None
    /\ fields.y_span_start = None /\ fields.y_span_end = None

\* C22: a load with no lines, whatever the texts, does not raise and leaves
\* a network with no axes; its snapshot has two empty lists, and on the grid
\* built from it every field of locate_point is null.  A space-detection pass
\* over no lines returns {closed_spaces: [], open_lines: []} without
\* raising, whatever min_lines and the tolerance.
C22_EmptyInput ==
    /\ (call.op = "load_from_dxf" /\ raw_lines = <<>>) =>
          result.exc = "" /\ axes = <<>>
    /\ (call.op = "to_dict" /\ raw_lines = <<>>) =>
          result = [x_axes |-> <<>>, y_axes |-> <<>>]
    /\ (call.op = "locate_point" /\ OfEmptyLoad) => AllNull(result)
    /\ (call.op = "_locate_line_spaces" /\ call.lines = <<>>) =>
          result = [closed_spaces |-> <<>>, open_lines |-> <<>>]

\* locate_point answered on the grid of a network loaded with texts and no
\* lines
C22_Witness ==
    /\ call.op = "locate_point"
    /\ OfEmptyLoad
    /\ raw_texts # <<>>
    /\ AllNull(result)

----------------------------------------------------------------------------
(* Work done by one pass *)

\* what the first loop of the pass in progress built
CallGeoms == ReadLines(call.lines, 1, call.tolerance, NoGeoms)

\* C25: in a pass that returns, each well-formed line is added to a
\* component and has its neighbours expanded exactly once, and the adjacency
\* list of each node is scanned exactly once.
C25_EachVisitedOnce ==
    Returned =>
        LET g == CallGeoms
            count == ComponentsCounted(g, 0, {}, NoCounts(g))
        IN /\ \A i \in DOMAIN count.expanded : count.expanded[i] = 1
           /\ \A n \in DOMAIN count.scanned : count.scanned[n] = 1

----------------------------------------------------------------------------
(* Numbering of the open lines *)

\* the record at position index (from 0) of the input of the pass
InputLine(index) == call.lines[index + 1]

\* the midpoint of a record, as the entry spells it
MidOf(line, k1, k2) == Fmt4(QDiv(QAdd(line[k1].v, line[k2].v), F(2)))

\* C26: the line_index of every open_lines entry is a position of the input
\* list, counted from 0 with the skipped records included; the record there
\* is well-formed and is the one whose layer and midpoint the entry gives;
\* no two entries have the same line_index.
C26_OpenLineIndex ==
    Returned =>
        /\ \A j \in DOMAIN result.open_lines :
              LET entry == result.open_lines[j] IN
              /\ entry.line_index \in 0..(Len(call.lines) - 1)
              /\ WellFormed(InputLine(entry.line_index))
              /\ entry.layer = InputLine(entry.line_index).layer
              /\ entry.mid_x = MidOf(InputLine(entry.line_index), "start_x", "end_x")
              /\ entry.mid_y = MidOf(InputLine(entry.line_index), "start_y", "end_y")
        /\ \A j, k \in DOMAIN result.open_lines :
              j # k => result.open_lines[j].line_index # result.open_lines[k].line_index

\* a skipped record ahead of two open lines: the entries are numbered 1 and
\* 2 although the lines are the first and second that were read
C26_Witness ==
    /\ Returned
    /\ Len(call.lines) = 3
    /\ Malformed(call.lines[1])
    /\ WellFormed(call.lines[2]) /\ WellFormed(call.lines[3])
    /\ call.lines[2] # call.lines[3]
    /\ Len(result.open_lines) = 2
    /\ OpenIndexes = {1, 2}

----------------------------------------------------------------------------
(* The results of a pass partition the lines *)

RECURSIVE LineCountSum(_)
LineCountSum(spaces) ==
    IF spaces = <<>> THEN 0 ELSE Head(spaces).line_count + LineCountSum(Tail(spaces))

\* C27: in a pass that returns, the line_count of the closed spaces and the
\* number of open_lines entries add up to the number of well-formed records
\* of the input.
C27_LinesPartitioned ==
    Returned =>
        LineCountSum(result.closed_spaces) + Len(result.open_lines)
            = Cardinality(WellFormedAt(call.lines))

\* a pass over a skipped record, a line closing a space on its own and an
\* open line
C27_Witness ==
    /\ Returned
    /\ \E i \in DOMAIN call.lines : Malformed(call.lines[i])
    /\ Len(result.closed_spaces) = 1
    /\ Len(result.open_lines) = 1
    /\ Cardinality(WellFormedAt(call.lines)) = 2

----------------------------------------------------------------------------
(* Lines and nodes of a closed space *)

\* C28: every closed_spaces entry has as many lines as nodes.
C28_LineCountIsNodeCount ==
    Returned =>
        \A j \in DOMAIN result.closed_spaces :
            result.closed_spaces[j].line_count = result.closed_spaces[j].node_count

\* a triangle reported closed
C28_Witness ==
    /\ Returned
    /\ Len(result.closed_spaces) = 1
    /\ result.closed_spaces[1].line_count = 3
    /\ result.closed_spaces[1].node_count = 3

----------------------------------------------------------------------------
(* The nearest axis and the span *)

\* the coordinates of the axes a span holds
SpanCoordinates(span) ==
    {span.prev[i].coordinate : i \in DOMAIN span.prev}
        \cup {span.next[i].coordinate : i \in DOMAIN span.next}

\* C29: on a non-empty sorted list, the axis _nearest_axis returns for a
\* value has the coordinate of the prev or of the next axis _span returns
\* for the same value.
C29_NearestIsInSpan ==
    (call.op = "_nearest_axis" /\ CallAxes # <<>>) =>
        /\ result # None
        /\ result[1].coordinate \in SpanCoordinates(_span(CallAxes, call.coord))

\* a value above two axes at different coordinates: the nearest axis is the
\* prev of the span, which has no next
C29_Witness ==
    /\ call.op = "_nearest_axis"
    /\ Len(CallAxes) = 2
    /\ QLt(CallAxes[1].coordinate, CallAxes[2].coordinate)
    /\ QLt(CallAxes[2].coordinate, call.coord)
    /\ result = Some(CallAxes[2])
    /\ _span(CallAxes, call.coord) = [prev |-> Some(CallAxes[2]), next |-> None]

----------------------------------------------------------------------------
(* The flat list of an extractor's elements *)

FlatLists == <<"texts", "lines", "rects", "circles">>
FlatTypes == <<"text", "line", "rect", "circle">>

\* the element at position i of the k-th flat list, as get_all_elements of
\* the extractor in use gives it
Shown(k, i) ==
    IF extractor = "dxf" THEN Typed(elements[FlatLists[k]][i], FlatTypes[k])
    ELSE elements[FlatLists[k]][i]

ExtractedAt == {ki \in (1..4) \X (1..MaxEntities + 1) : ki[2] \in DOMAIN elements[FlatLists[ki[1]]]}

\* C23: get_all_elements returns len(texts) + len(lines) + len(rects) +
\* len(circles) elements; each extracted text, line, rect and circle is in
\* the list as often as it is in the four lists, and no element of the
\* list is a polyline.
C23_AllElements ==
    call.op = "get_all_elements" =>
        /\ Len(result) = Len(elements.texts) + Len(elements.lines)
                            + Len(elements.rects) + Len(elements.circles)
        /\ \A ki \in ExtractedAt :
              Cardinality({j \in DOMAIN result : result[j] = Shown(ki[1], ki[2])})
                  = Cardinality({lm \in ExtractedAt : Shown(lm[1], lm[2]) = Shown(ki[1], ki[2])})
        /\ \A j \in DOMAIN result : "vertices" \notin DOMAIN result[j]

\* the elements of a DWG extractor that kept a text, a rect and the polyline
\* the rect was made from
C23_Witness ==
    /\ call.op = "get_all_elements"
    /\ extractor = "dwg"
    /\ Len(elements.texts) = 1
    /\ Len(elements.rects) = 1
    /\ Len(elements.polylines) = 1
    /\ Len(result) = 2

----------------------------------------------------------------------------
(* The configuration gates what is kept *)

ExtractionReturned == call.op = "extract_from_file" /\ "exc" \notin DOMAIN result

\* C24: after an extraction that returns, made with extract_text true and
\* extract_lines, extract_rects and extract_circles false, the lines, rects
\* and circles lists are empty, whatever the drawing holds and whatever an
\* earlier extraction left in them.
C24_ConfigGates ==
    (ExtractionReturned /\ call.extract_config = Some(TextOnly)) =>
        /\ elements.lines = <<>>
        /\ elements.rects = <<>>
        /\ elements.circles = <<>>

\* a text-only extraction of a drawing with a text and a line, by an
\* extractor whose earlier extraction had left a line, a rect or a circle
C24_Witness ==
    /\ ExtractionReturned
    /\ call.extract_config = Some(TextOnly)
    /\ call.entities = <<TextEntity, LineEntity>>
    /\ Len(history) = 1
    /\ history[1].result.lines + history[1].result.rects + history[1].result.circles > 0
    /\ Len(elements.texts) = 1
    /\ elements.lines = <<>>

----------------------------------------------------------------------------
(* The document a DWG extraction opens *)

Extracted == call.op = "extract_from_file"

\* the Close requests of the latest extraction
CloseRequests == SelectSeq(acad.log, LAMBDA entry : entry.request = "Close")

\* Close(False) asked once of the document Documents.Open returned, and of
\* no other; no Close at all when Open returned nothing
ClosedOnce ==
    IF acad.opened = 0 THEN CloseRequests = <<>>
    ELSE CloseRequests = <<[request |-> "Close", doc |-> acad.opened, save |-> FALSE]>>

====
